---- MODULE Spec2Model ----
(***************************************************************************)
(* The inventory backend of src/backend/server.py as a state machine: the  *)
(* document store's collections are the state, every HTTP handler is one   *)
(* action.  Optional values (Python's Optional[...]) are sequences of      *)
(* length 0 (None) or 1.                                                   *)
(***************************************************************************)
EXTENDS Integers, Sequences, FiniteSets, TLC

VARIABLES
    materials,      \* db.materials: id -> document
    tools,          \* db.tools: id -> document
    transactions,   \* db.transactions, in insertion order
    deliveries,     \* db.deliveries: id -> document
    issued,         \* the ids uuid4 has handed out so far
    now,            \* the last value datetime.utcnow() returned
    response,       \* the answer of the last request
    txnOk,          \* history: create_transaction requests answered 200
    txnWritten,     \* history: records create_transaction inserted
    checkedOnly,    \* history: tools created by default and then changed
                    \* by check_out / check_in only
    suppliers,      \* db.suppliers: id -> document
    stock_takes,    \* db.stock_takes, in insertion order
    inflight        \* the create_transaction requests between two awaits

vars == <<materials, tools, transactions, deliveries, issued, now, response, txnOk, txnWritten, checkedOnly,
         suppliers, stock_takes, inflight>>

\* ------------------------------------------------------------------ bounds

MaxClock == 3
MaxLog == 2
MaxItems == 2
MaxLedgerClock == 2

\* ------------------------------------------------------------ value sets

None == <<>>
Some(x) == <<x>>
IsSome(o) == Len(o) = 1
Get(o) == o[1]

MatIds == {"m1", "m2"}
ToolIds == {"t1"}
DeliveryIds == {"d1"}
ItemIds == MatIds \cup ToolIds

ToolStatus == {"available", "in_use", "maintenance", "out_of_order"}
TransactionType == {"take", "restock", "check_out", "check_in", "stock_take"}

Users == {"Alice", "Bob"}
Amounts == {-1, 1, 2}
MinStocks == {1}
CreateConditions == {"good", "poor"}
RequestConditions == {None, Some("fair")}

\* The request slots of the server: the handlers that can be between two
\* awaits at the same time.
Procs == {"p1", "p2"}

\* A slot with no request in it.
Idle == [pc |-> "idle", req |-> None, seen |-> None, doc |-> None, persisted |-> FALSE, inserted |-> FALSE]

NewId(pool) == CHOOSE i \in pool : i \notin issued
HasNewId(pool) == \E i \in pool : i \notin issued

\* An answer: the route that gave it, the HTTP status, and the body.
Ok(op, body) == [op |-> op, status |-> 200, body |-> body]
Fail(op, code, detail) == [op |-> op, status |-> code, body |-> [detail |-> detail]]

\* ------------------------------------------------------------------ state

Init ==
    /\ materials = <<>>
    /\ tools = <<>>
    /\ transactions = <<>>
    /\ deliveries = <<>>
    /\ issued = {}
    /\ now = 0
    /\ response = Ok("root", [message |-> "Asset Inventory API"])
    /\ txnOk = 0
    /\ txnWritten = 0
    /\ checkedOnly = {}
    /\ suppliers = <<>>
    /\ stock_takes = <<>>
    /\ inflight = [p \in Procs |-> Idle]

\* --------------------------------------------------------------- materials

IsValidMaterial(doc) == IsSome(doc.quantity)

create_material(q, ms) ==
    /\ HasNewId(MatIds)
    /\ LET id == NewId(MatIds) IN
        /\ materials' = (id :> [quantity |-> Some(q), min_stock |-> ms, updated_at |-> now + 1]) @@ materials
        /\ issued' = issued \cup {id}
        /\ response' = Ok("create_material", [id |-> id])
    /\ now' = now + 1
    /\ UNCHANGED <<tools, transactions, deliveries, txnOk, txnWritten, checkedOnly>>
    /\ UNCHANGED <<suppliers, stock_takes, inflight>>

update_material(id, q, ms) ==
    /\ IF id \notin DOMAIN materials
       THEN /\ response' = Fail("update_material", 404, "Material not found")
            /\ UNCHANGED <<materials, now>>
       ELSE /\ materials' = [materials EXCEPT ![id] = [quantity |-> Some(q), min_stock |-> ms, updated_at |-> now + 1]]
            /\ now' = now + 1
            /\ response' = Ok("update_material", [id |-> id])
    /\ UNCHANGED <<tools, transactions, deliveries, issued, txnOk, txnWritten, checkedOnly>>
    /\ UNCHANGED <<suppliers, stock_takes, inflight>>

\* ------------------------------------------------------------------- tools

create_tool(st, cond) ==
    /\ HasNewId(ToolIds)
    /\ LET id == NewId(ToolIds) IN
        /\ tools' = (id :> [status |-> st, condition |-> cond, current_user |-> None, updated_at |-> now + 1]) @@ tools
        /\ issued' = issued \cup {id}
        /\ checkedOnly' = IF st = "available" THEN checkedOnly \cup {id} ELSE checkedOnly
        /\ response' = Ok("create_tool", [id |-> id])
    /\ now' = now + 1
    /\ UNCHANGED <<materials, transactions, deliveries, txnOk, txnWritten>>
    /\ UNCHANGED <<suppliers, stock_takes, inflight>>

\* update_tool that clears the holder of a tool it makes available.
update_tool_SyncsHolder(id, st, cond) ==
    /\ IF id \notin DOMAIN tools
       THEN /\ response' = Fail("update_tool", 404, "Tool not found")
            /\ UNCHANGED <<tools, now, checkedOnly>>
       ELSE /\ tools' = [tools EXCEPT ![id].status = st, ![id].condition = cond,
                                      ![id].current_user = IF st = "available" THEN None ELSE @,
                                      ![id].updated_at = now + 1]
            /\ now' = now + 1
            /\ checkedOnly' = checkedOnly \ {id}
            /\ response' = Ok("update_tool", [id |-> id])
    /\ UNCHANGED <<materials, transactions, deliveries, issued, txnOk, txnWritten>>
    /\ UNCHANGED <<suppliers, stock_takes, inflight>>

update_tool(id, st, cond) ==
    /\ IF id \notin DOMAIN tools
       THEN /\ response' = Fail("update_tool", 404, "Tool not found")
            /\ UNCHANGED <<tools, now, checkedOnly>>
       ELSE /\ tools' = [tools EXCEPT ![id].status = st, ![id].condition = cond, ![id].updated_at = now + 1]
            /\ now' = now + 1
            /\ checkedOnly' = checkedOnly \ {id}
            /\ response' = Ok("update_tool", [id |-> id])
    /\ UNCHANGED <<materials, transactions, deliveries, issued, txnOk, txnWritten>>
    /\ UNCHANGED <<suppliers, stock_takes, inflight>>

\* ------------------------------------------------------------ transactions

\* The request bodies tried: a material request carries a quantity (or omits
\* it), a tool request a condition (or omits it).
TransactionCreate ==
    [item_id : ItemIds, item_type : {"material"}, transaction_type : TransactionType,
     user_name : {"Alice"}, quantity : {None} \cup {Some(a) : a \in Amounts},
     condition : {None}]
    \cup
    [item_id : ItemIds, item_type : {"tool"}, transaction_type : TransactionType,
     user_name : Users, quantity : {None}, condition : RequestConditions]

\* Transaction that loses the request's quantity.
Transaction_DropsQuantity(req) ==
    [item_id |-> req.item_id, item_type |-> req.item_type,
     transaction_type |-> req.transaction_type, user_name |-> req.user_name,
     quantity |-> None, condition |-> req.condition]

Transaction(req) ==
    [item_id |-> req.item_id, item_type |-> req.item_type,
     transaction_type |-> req.transaction_type, user_name |-> req.user_name,
     quantity |-> req.quantity, condition |-> req.condition]

Raised(code, detail) == [code |-> code, detail |-> detail]
Updated(doc) == [code |-> 200, doc |-> doc]

\* TakeFrom with the stock check off by one: a take of the whole stock is refused.
TakeFrom_RefusesAll(material, transaction) ==
    IF ~IsSome(transaction.quantity)
    THEN Raised(500, "TypeError")
    ELSE IF Get(material.quantity) <= Get(transaction.quantity)
    THEN Raised(400, "Insufficient quantity")
    ELSE Updated([material EXCEPT !.quantity = Some(Get(material.quantity) - Get(transaction.quantity))])

\* The take branch: the stock check and the subtraction.
TakeFrom(material, transaction) ==
    IF ~IsSome(transaction.quantity)
    THEN Raised(500, "TypeError")
    ELSE IF Get(material.quantity) < Get(transaction.quantity)
    THEN Raised(400, "Insufficient quantity")
    ELSE Updated([material EXCEPT !.quantity = Some(Get(material.quantity) - Get(transaction.quantity))])

\* RestockTo that overwrites the stock with the delivered amount.
RestockTo_Overwrites(material, transaction) ==
    IF ~IsSome(transaction.quantity)
    THEN Raised(500, "TypeError")
    ELSE Updated([material EXCEPT !.quantity = transaction.quantity])

\* The restock branch.
RestockTo(material, transaction) ==
    IF ~IsSome(transaction.quantity)
    THEN Raised(500, "TypeError")
    ELSE Updated([material EXCEPT !.quantity = Some(Get(material.quantity) + Get(transaction.quantity))])

\* StockTakeOf that adds the count to the stock instead of setting it.
StockTakeOf_Adds(material, transaction) ==
    IF ~IsSome(transaction.quantity)
    THEN Updated([material EXCEPT !.quantity = None])
    ELSE Updated([material EXCEPT !.quantity = Some(Get(material.quantity) + Get(transaction.quantity))])

\* The stock_take branch: a plain assignment, not validated.
StockTakeOf(material, transaction) ==
    Updated([material EXCEPT !.quantity = transaction.quantity])

\* What create_transaction computes from the material document it read.
MaterialBranch(material_doc, transaction) ==
    IF ~IsValidMaterial(material_doc)
    THEN Raised(500, "ValidationError")
    ELSE CASE transaction.transaction_type = "take" -> TakeFrom(material_doc, transaction)
           [] transaction.transaction_type = "restock" -> RestockTo(material_doc, transaction)
           [] transaction.transaction_type = "stock_take" -> StockTakeOf(material_doc, transaction)
           [] OTHER -> Updated(material_doc)

\* CheckOut that marks the tool in use and records no holder.
CheckOut_NoHolder(tool, transaction) ==
    [tool EXCEPT !.status = "in_use"]

CheckOut(tool, transaction) ==
    [tool EXCEPT !.status = "in_use", !.current_user = Some(transaction.user_name)]

\* CheckIn that leaves the holder in place.
CheckIn_KeepsHolder(tool, transaction) ==
    [tool EXCEPT !.status = "available",
                 !.condition = IF IsSome(transaction.condition) THEN Get(transaction.condition) ELSE @]

CheckIn(tool, transaction) ==
    [tool EXCEPT !.status = "available", !.current_user = None,
                 !.condition = IF IsSome(transaction.condition) THEN Get(transaction.condition) ELSE @]

\* ToolBranch that leaves alone a tool that is not available at a check_out
\* and a tool that is not in_use at a check_in.
ToolBranch_KeepsBusy(tool_doc, transaction) ==
    CASE transaction.transaction_type = "check_out" /\ tool_doc.status = "available" ->
            Updated(CheckOut(tool_doc, transaction))
      [] transaction.transaction_type = "check_in" /\ tool_doc.status = "in_use" ->
            Updated(CheckIn(tool_doc, transaction))
      [] OTHER -> Updated(tool_doc)

\* What create_transaction computes from the tool document it read.
ToolBranch(tool_doc, transaction) ==
    CASE transaction.transaction_type = "check_out" -> Updated(CheckOut(tool_doc, transaction))
      [] transaction.transaction_type = "check_in" -> Updated(CheckIn(tool_doc, transaction))
      [] OTHER -> Updated(tool_doc)

\* Rejected with the record inserted before the lookup raised.
Rejected_AfterInsert(transaction, code, detail) ==
    [response |-> Fail("create_transaction", code, detail),
     materials |-> materials, tools |-> tools,
     transactions |-> Append(transactions, transaction), now |-> now]

\* The request that raises before the first write: the answer, and the
\* collections as they were.
Rejected(transaction, code, detail) ==
    [response |-> Fail("create_transaction", code, detail),
     materials |-> materials, tools |-> tools,
     transactions |-> transactions, now |-> now]

\* The accepted request: the item's update_one, then the insert of the
\* record, then the answer.
Written(transaction, materials_after, tools_after) ==
    [response |-> Ok("create_transaction", transaction),
     materials |-> materials_after, tools |-> tools_after,
     transactions |-> Append(transactions, transaction), now |-> now + 1]

\* What create_transaction answers to a request and leaves in the store.
TransactionResult(req) ==
    LET transaction == Transaction(req) IN
    IF transaction.item_type = "material"
    THEN IF transaction.item_id \notin DOMAIN materials
         THEN Rejected(transaction, 404, "Material not found")
         ELSE LET r == MaterialBranch(materials[transaction.item_id], transaction) IN
              IF r.code # 200
              THEN Rejected(transaction, r.code, r.detail)
              ELSE Written(transaction,
                           [materials EXCEPT ![transaction.item_id] = [r.doc EXCEPT !.updated_at = now + 1]],
                           tools)
    ELSE IF transaction.item_id \notin DOMAIN tools
         THEN Rejected(transaction, 404, "Tool not found")
         ELSE LET r == ToolBranch(tools[transaction.item_id], transaction) IN
              Written(transaction,
                      materials,
                      [tools EXCEPT ![transaction.item_id] = [r.doc EXCEPT !.updated_at = now + 1]])

create_transaction(req) ==
    LET r == TransactionResult(req) IN
    /\ response' = r.response
    /\ materials' = r.materials
    /\ tools' = r.tools
    /\ transactions' = r.transactions
    /\ now' = r.now
    /\ txnWritten' = txnWritten + (Len(r.transactions) - Len(transactions))
    /\ txnOk' = IF r.response.status = 200 THEN txnOk + 1 ELSE txnOk
    /\ checkedOnly' = IF r.tools = tools \/ req.transaction_type \in {"check_out", "check_in"}
                      THEN checkedOnly ELSE checkedOnly \ {req.item_id}
    /\ UNCHANGED <<deliveries, issued>>
    /\ UNCHANGED <<suppliers, stock_takes, inflight>>

\* ------------------------------------- create_transaction, await by await
\* The handler awaits three times: find_one, update_one, insert_one. Between
\* two awaits another invocation of the handler can run, and the process can
\* die. inflight[p] holds what invocation p has in hand: the request, the
\* document it read (seen), the document it computed and writes (doc), and
\* whether its update_one and its insert_one were done.

\* The requests the invocations are started with.
ConcurrentRequests ==
    {req \in TransactionCreate :
        \/ /\ req.item_type = "material"
           /\ req.transaction_type \in {"take", "restock"}
           /\ req.quantity \in {Some(1), Some(2)}
        \/ /\ req.item_type = "tool"
           /\ req.transaction_type = "check_out"
           /\ req.user_name = "Alice"
           /\ req.condition = None}

\* The collection the request's item is in.
StoreOf(req) == IF req.item_type = "material" THEN materials ELSE tools

\* find_one and what follows up to the next await: a missing item and a
\* refused request are answered at once, an accepted one holds the document
\* to write.
txn_read(p, req) ==
    /\ inflight[p].pc = "idle"
    /\ LET transaction == Transaction(req) IN
       IF req.item_id \notin DOMAIN StoreOf(req)
       THEN /\ response' = Fail("create_transaction", 404,
                                IF req.item_type = "material" THEN "Material not found" ELSE "Tool not found")
            /\ UNCHANGED inflight
       ELSE LET found == StoreOf(req)[req.item_id]
                r == IF req.item_type = "material"
                     THEN MaterialBranch(found, transaction)
                     ELSE ToolBranch(found, transaction)
            IN  IF r.code # 200
                THEN /\ response' = Fail("create_transaction", r.code, r.detail)
                     /\ UNCHANGED inflight
                ELSE /\ inflight' = [inflight EXCEPT ![p] =
                            [pc |-> "read", req |-> Some(req), seen |-> Some(found), doc |-> Some(r.doc),
                             persisted |-> FALSE, inserted |-> FALSE]]
                     /\ UNCHANGED response
    /\ UNCHANGED <<materials, tools, transactions, deliveries, issued, now, txnOk, txnWritten, checkedOnly>>
    /\ UNCHANGED <<suppliers, stock_takes>>

\* txn_update that subtracts what the request takes from the stored document
\* instead of writing the document it computed.
txn_update_Increments(p) ==
    /\ inflight[p].pc = "read"
    /\ LET req == Get(inflight[p].req)
           seen == Get(inflight[p].seen)
           doc == Get(inflight[p].doc)
       IN  /\ req.item_type = "material"
           /\ req.item_id \in DOMAIN materials
           /\ materials' = [materials EXCEPT ![req.item_id].quantity =
                                Some(Get(@) + Get(doc.quantity) - Get(seen.quantity)),
                                             ![req.item_id].updated_at = now + 1]
           /\ inflight' = [inflight EXCEPT ![p].pc = "updated", ![p].persisted = TRUE,
                                           ![p].doc = Some([doc EXCEPT !.updated_at = now + 1])]
    /\ now' = now + 1
    /\ UNCHANGED <<tools, transactions, deliveries, issued, response, txnOk, txnWritten, checkedOnly>>
    /\ UNCHANGED <<suppliers, stock_takes>>

\* txn_update that writes only over the document the invocation read: the
\* filter also names the updated_at that was read.
txn_update_IfUnchanged(p) ==
    /\ inflight[p].pc = "read"
    /\ LET req == Get(inflight[p].req)
           doc == [Get(inflight[p].doc) EXCEPT !.updated_at = now + 1]
       IN  /\ IF req.item_type = "material"
              THEN /\ materials' = IF req.item_id \in DOMAIN materials
                                      /\ materials[req.item_id] = Get(inflight[p].seen)
                                   THEN [materials EXCEPT ![req.item_id] = doc] ELSE materials
                   /\ UNCHANGED <<tools, checkedOnly>>
              ELSE /\ tools' = IF req.item_id \in DOMAIN tools /\ tools[req.item_id] = Get(inflight[p].seen)
                               THEN [tools EXCEPT ![req.item_id] = doc] ELSE tools
                   /\ checkedOnly' = checkedOnly
                   /\ UNCHANGED materials
           /\ inflight' = [inflight EXCEPT ![p].pc = "updated", ![p].persisted = TRUE, ![p].doc = Some(doc)]
    /\ now' = now + 1
    /\ UNCHANGED <<transactions, deliveries, issued, response, txnOk, txnWritten>>
    /\ UNCHANGED <<suppliers, stock_takes>>

\* update_one: the whole document the invocation computed from its own read
\* is written over the stored one; an id no longer stored matches nothing.
txn_update(p) ==
    /\ inflight[p].pc = "read"
    /\ LET req == Get(inflight[p].req)
           doc == [Get(inflight[p].doc) EXCEPT !.updated_at = now + 1]
       IN  /\ IF req.item_type = "material"
              THEN /\ materials' = IF req.item_id \in DOMAIN materials
                                   THEN [materials EXCEPT ![req.item_id] = doc] ELSE materials
                   /\ UNCHANGED <<tools, checkedOnly>>
              ELSE /\ tools' = IF req.item_id \in DOMAIN tools
                               THEN [tools EXCEPT ![req.item_id] = doc] ELSE tools
                   /\ checkedOnly' = IF tools' = tools \/ req.transaction_type \in {"check_out", "check_in"}
                                     THEN checkedOnly ELSE checkedOnly \ {req.item_id}
                   /\ UNCHANGED materials
           /\ inflight' = [inflight EXCEPT ![p].pc = "updated", ![p].persisted = TRUE, ![p].doc = Some(doc)]
    /\ now' = now + 1
    /\ UNCHANGED <<transactions, deliveries, issued, response, txnOk, txnWritten>>
    /\ UNCHANGED <<suppliers, stock_takes>>

\* txn_insert that runs before the item's update_one.
txn_insert_BeforeUpdate(p) ==
    /\ inflight[p].pc = "read"
    /\ LET transaction == Transaction(Get(inflight[p].req)) IN
        /\ transactions' = Append(transactions, transaction)
        /\ response' = Ok("create_transaction", transaction)
    /\ inflight' = [inflight EXCEPT ![p].pc = "done", ![p].inserted = TRUE]
    /\ txnWritten' = txnWritten + 1
    /\ txnOk' = txnOk + 1
    /\ UNCHANGED <<materials, tools, deliveries, issued, now, checkedOnly>>
    /\ UNCHANGED <<suppliers, stock_takes>>

\* insert_one and the answer.
txn_insert(p) ==
    /\ inflight[p].pc = "updated"
    /\ LET transaction == Transaction(Get(inflight[p].req)) IN
        /\ transactions' = Append(transactions, transaction)
        /\ response' = Ok("create_transaction", transaction)
    /\ inflight' = [inflight EXCEPT ![p].pc = "done", ![p].inserted = TRUE]
    /\ txnWritten' = txnWritten + 1
    /\ txnOk' = txnOk + 1
    /\ UNCHANGED <<materials, tools, deliveries, issued, now, checkedOnly>>
    /\ UNCHANGED <<suppliers, stock_takes>>

\* The process dies while the invocation waits for the store.
txn_crash(p) ==
    /\ inflight[p].pc \in {"read", "updated"}
    /\ inflight' = [inflight EXCEPT ![p].pc = "crashed"]
    /\ UNCHANGED <<materials, tools, transactions, deliveries, issued, now, response, txnOk, txnWritten, checkedOnly>>
    /\ UNCHANGED <<suppliers, stock_takes>>

\* delete_material that also removes the material's transactions.
delete_material_Cascades(id) ==
    /\ id \in DOMAIN materials
    /\ materials' = [i \in DOMAIN materials \ {id} |-> materials[i]]
    /\ transactions' = SelectSeq(transactions, LAMBDA t : t.item_id # id)
    /\ response' = Ok("delete_material", [message |-> "Material deleted successfully"])
    /\ UNCHANGED <<tools, deliveries, issued, now, txnOk, txnWritten, checkedOnly>>
    /\ UNCHANGED <<suppliers, stock_takes, inflight>>

delete_material(id) ==
    /\ IF id \notin DOMAIN materials
       THEN /\ response' = Fail("delete_material", 404, "Material not found")
            /\ UNCHANGED materials
       ELSE /\ materials' = [i \in DOMAIN materials \ {id} |-> materials[i]]
            /\ response' = Ok("delete_material", [message |-> "Material deleted successfully"])
    /\ UNCHANGED <<tools, transactions, deliveries, issued, now, txnOk, txnWritten, checkedOnly>>
    /\ UNCHANGED <<suppliers, stock_takes, inflight>>

\* -------------------------------------------------------------- stock takes

\* The entries tried: counts of materials, and conditions (or none) of a tool.
StockTakeEntries ==
    {[item_id |-> "m1", item_type |-> "material", counted_quantity |-> 2, condition |-> None],
     [item_id |-> "m1", item_type |-> "material", counted_quantity |-> 0, condition |-> None],
     [item_id |-> "m2", item_type |-> "material", counted_quantity |-> 1, condition |-> None],
     [item_id |-> "t1", item_type |-> "tool", counted_quantity |-> 0, condition |-> Some("poor")],
     [item_id |-> "t1", item_type |-> "tool", counted_quantity |-> 0, condition |-> None]}

StockTakeEntryLists == UNION {[1..n -> StockTakeEntries] : n \in 0..MaxItems}

\* The Transaction the loop builds for an entry.
EntryTransaction(entry, user_name) ==
    [item_id |-> entry.item_id, item_type |-> entry.item_type,
     transaction_type |-> "stock_take", user_name |-> user_name,
     quantity |-> IF entry.item_type = "material" THEN Some(entry.counted_quantity) ELSE None,
     condition |-> entry.condition]

\* ApplyEntry that adds the count to the stored quantity.
ApplyEntry_Adds(st, entry, user_name, stamp) ==
    [st EXCEPT
        !.materials = IF entry.item_type = "material" /\ entry.item_id \in DOMAIN st.materials
                      THEN [@ EXCEPT ![entry.item_id].quantity =
                                         IF IsSome(@) THEN Some(Get(@) + entry.counted_quantity)
                                         ELSE Some(entry.counted_quantity),
                                     ![entry.item_id].updated_at = stamp]
                      ELSE @,
        !.tools = IF entry.item_type = "tool" /\ entry.item_id \in DOMAIN st.tools
                  THEN [@ EXCEPT ![entry.item_id].condition =
                                     IF IsSome(entry.condition) THEN Get(entry.condition) ELSE @,
                                 ![entry.item_id].updated_at = stamp]
                  ELSE @,
        !.transactions = Append(@, EntryTransaction(entry, user_name))]

\* One pass of the loop over the entries, on the loop's state [materials,
\* tools, transactions]: update_one (which changes nothing when no document
\* has the id), then insert_one of the Transaction.
ApplyEntry(st, entry, user_name, stamp) ==
    [st EXCEPT
        !.materials = IF entry.item_type = "material" /\ entry.item_id \in DOMAIN st.materials
                      THEN [@ EXCEPT ![entry.item_id].quantity = Some(entry.counted_quantity),
                                     ![entry.item_id].updated_at = stamp]
                      ELSE @,
        !.tools = IF entry.item_type = "tool" /\ entry.item_id \in DOMAIN st.tools
                  THEN [@ EXCEPT ![entry.item_id].condition =
                                     IF IsSome(entry.condition) THEN Get(entry.condition) ELSE @,
                                 ![entry.item_id].updated_at = stamp]
                  ELSE @,
        !.transactions = Append(@, EntryTransaction(entry, user_name))]

RECURSIVE StockTakeLoop(_, _, _, _)
StockTakeLoop(st, entries, user_name, stamp) ==
    IF entries = <<>>
    THEN st
    ELSE StockTakeLoop(ApplyEntry(st, Head(entries), user_name, stamp), Tail(entries), user_name, stamp)

\* What the batch answers and leaves in the store.
StockTakeResult(entries, user_name) ==
    LET st == StockTakeLoop([materials |-> materials, tools |-> tools, transactions |-> transactions],
                            entries, user_name, now + 1)
        stock_take == [user_name |-> user_name, entries |-> entries, completed |-> TRUE]
    IN  [response |-> Ok("create_stock_take", stock_take),
         materials |-> st.materials, tools |-> st.tools, transactions |-> st.transactions,
         stock_takes |-> Append(stock_takes, stock_take), now |-> now + 1]

create_stock_take(entries, user_name) ==
    /\ LET r == StockTakeResult(entries, user_name) IN
        /\ response' = r.response
        /\ materials' = r.materials
        /\ tools' = r.tools
        /\ transactions' = r.transactions
        /\ stock_takes' = r.stock_takes
        /\ now' = r.now
        /\ checkedOnly' = {id \in checkedOnly : r.tools[id] = tools[id]}
    /\ UNCHANGED <<deliveries, issued, txnOk, txnWritten>>
    /\ UNCHANGED <<suppliers, inflight>>

\* ---------------------------------------------------------------- low stock

\* MongoDB's $lte on the stored fields: null sorts before every number.
Lte(quantity, min_stock) == ~IsSome(quantity) \/ Get(quantity) <= min_stock

\* The documents the query's filter selects.
LowStock == {id \in DOMAIN materials : Lte(materials[id].quantity, materials[id].min_stock)}

\* What the query answers: every selected document goes through Material(**doc).
LowStockAlerts ==
    IF \E id \in LowStock : ~IsValidMaterial(materials[id])
    THEN Fail("get_low_stock_alerts", 500, "ValidationError")
    ELSE Ok("get_low_stock_alerts", [count |-> Cardinality(LowStock), materials |-> LowStock])

get_low_stock_alerts ==
    /\ response' = LowStockAlerts
    /\ UNCHANGED <<materials, tools, transactions, deliveries, issued, now, txnOk, txnWritten, checkedOnly>>
    /\ UNCHANGED <<suppliers, stock_takes, inflight>>

\* --------------------------------------------------------------- deliveries

DefaultMinStock == 5

RECURSIVE Sum(_)
Sum(seq) == IF seq = <<>> THEN 0 ELSE Head(seq) + Sum(Tail(seq))

\* The items lists of the create requests tried: each entry a quantity_expected.
DeliveryItemLists == {<<>>, <<3>>, <<1, 2>>}

\* The confirmed items tried.
ConfirmedItems ==
    {[is_new_item |-> TRUE, item_type |-> "material", matched_inventory_id |-> None, quantity_received |-> 2],
     [is_new_item |-> TRUE, item_type |-> "material", matched_inventory_id |-> None, quantity_received |-> 0],
     [is_new_item |-> TRUE, item_type |-> "tool", matched_inventory_id |-> None, quantity_received |-> 1],
     [is_new_item |-> FALSE, item_type |-> "material", matched_inventory_id |-> Some("m1"), quantity_received |-> 1],
     [is_new_item |-> FALSE, item_type |-> "material", matched_inventory_id |-> None, quantity_received |-> 1]}

ConfirmedItemLists == UNION {[1..n -> ConfirmedItems] : n \in 0..MaxItems}

QuantitiesReceived(confirmed_items) == [i \in DOMAIN confirmed_items |-> confirmed_items[i].quantity_received]

create_delivery(items) ==
    /\ HasNewId(DeliveryIds)
    /\ LET id == NewId(DeliveryIds) IN
        /\ deliveries' = (id :> [status |-> "pending", user_confirmed |-> FALSE, actual_delivery_date |-> None,
                                 total_items_expected |-> Sum(items), total_items_received |-> 0,
                                 delivery_note_photo |-> None, ai_extracted_data |-> FALSE,
                                 updated_at |-> now + 1]) @@ deliveries
        /\ issued' = issued \cup {id}
        /\ response' = Ok("create_delivery", [id |-> id])
    /\ now' = now + 1
    /\ UNCHANGED <<materials, tools, transactions, txnOk, txnWritten, checkedOnly>>
    /\ UNCHANGED <<suppliers, stock_takes, inflight>>

\* The delivery_note_photo values tried: absent, empty, a photo.
Photos == {None, Some(""), Some("base64_photo_data")}

\* Python's truthiness of an optional string.
Truthy(o) == IsSome(o) /\ Get(o) # ""

\* What process-delivery-note answers and leaves in the store.  Both
\* HTTPExceptions are raised inside the try and caught by except Exception.
ProcessNoteResult(delivery_id, delivery_note_photo) ==
    IF delivery_id \notin DOMAIN deliveries
    THEN [response |-> Fail("process_delivery_note_with_ai", 500, "AI processing failed: 404: Delivery not found"),
          deliveries |-> deliveries, now |-> now]
    ELSE IF ~Truthy(delivery_note_photo)
    THEN [response |-> Fail("process_delivery_note_with_ai", 500, "AI processing failed: 400: Delivery note photo is required"),
          deliveries |-> deliveries, now |-> now]
    ELSE [response |-> Ok("process_delivery_note_with_ai", [success |-> TRUE, items |-> 3]),
          deliveries |-> [deliveries EXCEPT ![delivery_id].ai_extracted_data = TRUE,
                                          ![delivery_id].delivery_note_photo = delivery_note_photo,
                                          ![delivery_id].updated_at = now + 1],
          now |-> now + 1]

process_delivery_note_with_ai(delivery_id, delivery_note_photo) ==
    /\ LET r == ProcessNoteResult(delivery_id, delivery_note_photo) IN
        /\ response' = r.response
        /\ deliveries' = r.deliveries
        /\ now' = r.now
    /\ UNCHANGED <<materials, tools, transactions, issued, txnOk, txnWritten, checkedOnly>>
    /\ UNCHANGED <<suppliers, stock_takes, inflight>>

\* One pass of the loop over confirmed_items, on the loop's state
\* [code, materials, issued, updated]; code 500 is the exception that left the loop.
ConfirmItem(st, item, stamp) ==
    IF item.quantity_received <= 0
    THEN st
    ELSE IF item.is_new_item
    THEN IF item.item_type = "material"
         THEN LET id == CHOOSE i \in MatIds : i \notin st.issued IN
              [st EXCEPT !.materials = (id :> [quantity |-> Some(item.quantity_received),
                                               min_stock |-> DefaultMinStock,
                                               updated_at |-> stamp]) @@ @,
                         !.issued = @ \cup {id},
                         !.updated = @ + 1]
         ELSE st
    ELSE IF IsSome(item.matched_inventory_id) /\ Get(item.matched_inventory_id) \in DOMAIN st.materials
    THEN LET id == Get(item.matched_inventory_id) IN
         IF ~IsSome(st.materials[id].quantity)
         THEN [st EXCEPT !.code = 500]
         ELSE [st EXCEPT !.materials[id].quantity = Some(Get(@) + item.quantity_received),
                         !.materials[id].updated_at = stamp,
                         !.updated = @ + 1]
    ELSE st

RECURSIVE ConfirmLoop(_, _, _)
ConfirmLoop(st, confirmed_items, stamp) ==
    IF confirmed_items = <<>> \/ st.code # 200
    THEN st
    ELSE ConfirmLoop(ConfirmItem(st, Head(confirmed_items), stamp), Tail(confirmed_items), stamp)

\* The ids the loop would draw from uuid4 for new materials.
NewMaterialsIn(confirmed_items) ==
    Cardinality({i \in DOMAIN confirmed_items :
                    /\ confirmed_items[i].quantity_received > 0
                    /\ confirmed_items[i].is_new_item
                    /\ confirmed_items[i].item_type = "material"})

\* CompleteDelivery that completes only a delivery received in full.
CompleteDelivery_ChecksReceipt(delivery_doc, confirmed_items, stamp) ==
    [delivery_doc EXCEPT !.status = IF Sum(QuantitiesReceived(confirmed_items)) >= delivery_doc.total_items_expected
                                    THEN "completed" ELSE "partially_received",
                         !.user_confirmed = TRUE,
                         !.actual_delivery_date = Some(stamp),
                         !.total_items_received = Sum(QuantitiesReceived(confirmed_items)),
                         !.updated_at = stamp]

\* The final update of the delivery document.
CompleteDelivery(delivery_doc, confirmed_items, stamp) ==
    [delivery_doc EXCEPT !.status = "completed", !.user_confirmed = TRUE,
                         !.actual_delivery_date = Some(stamp),
                         !.total_items_received = Sum(QuantitiesReceived(confirmed_items)),
                         !.updated_at = stamp]

\* ConfirmResult that undoes the Material writes of the loop when it raises.
ConfirmResult_RollsBack(delivery_id, confirmed_items) ==
    IF delivery_id \notin DOMAIN deliveries
    THEN [response |-> Fail("confirm_delivery_and_update_inventory", 500, "Failed to confirm delivery: 404: Delivery not found"),
          materials |-> materials, deliveries |-> deliveries, issued |-> issued, now |-> now]
    ELSE LET st == ConfirmLoop([code |-> 200, materials |-> materials, issued |-> issued, updated |-> 0],
                               confirmed_items, now + 1) IN
         IF st.code # 200
         THEN [response |-> Fail("confirm_delivery_and_update_inventory", 500, "Failed to confirm delivery: TypeError"),
               materials |-> materials, deliveries |-> deliveries, issued |-> st.issued, now |-> now + 1]
         ELSE [response |-> Ok("confirm_delivery_and_update_inventory",
                               [success |-> TRUE, materials_updated |-> st.updated,
                                total_items_processed |-> Len(confirmed_items)]),
               materials |-> st.materials,
               deliveries |-> [deliveries EXCEPT ![delivery_id] = CompleteDelivery(@, confirmed_items, now + 1)],
               issued |-> st.issued, now |-> now + 1]

\* ConfirmResult that refuses a delivery that is completed already.
ConfirmResult_OnceOnly(delivery_id, confirmed_items) ==
    IF delivery_id \notin DOMAIN deliveries
    THEN [response |-> Fail("confirm_delivery_and_update_inventory", 500, "Failed to confirm delivery: 404: Delivery not found"),
          materials |-> materials, deliveries |-> deliveries, issued |-> issued, now |-> now]
    ELSE IF deliveries[delivery_id].status = "completed"
    THEN [response |-> Fail("confirm_delivery_and_update_inventory", 409, "Delivery already confirmed"),
          materials |-> materials, deliveries |-> deliveries, issued |-> issued, now |-> now]
    ELSE LET st == ConfirmLoop([code |-> 200, materials |-> materials, issued |-> issued, updated |-> 0],
                               confirmed_items, now + 1) IN
         IF st.code # 200
         THEN [response |-> Fail("confirm_delivery_and_update_inventory", 500, "Failed to confirm delivery: TypeError"),
               materials |-> st.materials, deliveries |-> deliveries, issued |-> st.issued, now |-> now + 1]
         ELSE [response |-> Ok("confirm_delivery_and_update_inventory",
                               [success |-> TRUE, materials_updated |-> st.updated,
                                total_items_processed |-> Len(confirmed_items)]),
               materials |-> st.materials,
               deliveries |-> [deliveries EXCEPT ![delivery_id] = CompleteDelivery(@, confirmed_items, now + 1)],
               issued |-> st.issued, now |-> now + 1]

\* What the confirmation answers and leaves in the store.  An exception
\* (the 404 of a missing delivery included) is caught and answered 500.
ConfirmResult(delivery_id, confirmed_items) ==
    IF delivery_id \notin DOMAIN deliveries
    THEN [response |-> Fail("confirm_delivery_and_update_inventory", 500, "Failed to confirm delivery: 404: Delivery not found"),
          materials |-> materials, deliveries |-> deliveries, issued |-> issued, now |-> now]
    ELSE LET st == ConfirmLoop([code |-> 200, materials |-> materials, issued |-> issued, updated |-> 0],
                               confirmed_items, now + 1) IN
         IF st.code # 200
         THEN [response |-> Fail("confirm_delivery_and_update_inventory", 500, "Failed to confirm delivery: TypeError"),
               materials |-> st.materials, deliveries |-> deliveries, issued |-> st.issued, now |-> now + 1]
         ELSE [response |-> Ok("confirm_delivery_and_update_inventory",
                               [success |-> TRUE, materials_updated |-> st.updated,
                                total_items_processed |-> Len(confirmed_items)]),
               materials |-> st.materials,
               deliveries |-> [deliveries EXCEPT ![delivery_id] = CompleteDelivery(@, confirmed_items, now + 1)],
               issued |-> st.issued, now |-> now + 1]

\* The request is within the ids this model can issue, and names no id that
\* its own loop is yet to draw: a uuid4 is not known before it is drawn.
CanConfirm(confirmed_items) ==
    /\ NewMaterialsIn(confirmed_items) <= Cardinality(MatIds \ issued)
    /\ NewMaterialsIn(confirmed_items) > 0 =>
            \A i \in DOMAIN confirmed_items :
                IsSome(confirmed_items[i].matched_inventory_id) =>
                    Get(confirmed_items[i].matched_inventory_id) \in issued

confirm_delivery_and_update_inventory(delivery_id, confirmed_items) ==
    /\ CanConfirm(confirmed_items)
    /\ LET r == ConfirmResult(delivery_id, confirmed_items) IN
        /\ response' = r.response
        /\ materials' = r.materials
        /\ deliveries' = r.deliveries
        /\ issued' = r.issued
        /\ now' = r.now
    /\ UNCHANGED <<tools, transactions, txnOk, txnWritten, checkedOnly>>
    /\ UNCHANGED <<suppliers, stock_takes, inflight>>

\* What the store holds when the process dies in the confirmation after the
\* writes of the first k items and before the final update of the delivery.
ConfirmCrashResult(delivery_id, confirmed_items, k) ==
    LET st == ConfirmLoop([code |-> 200, materials |-> materials, issued |-> issued, updated |-> 0],
                          SubSeq(confirmed_items, 1, k), now + 1)
    IN  [materials |-> st.materials, deliveries |-> deliveries, issued |-> st.issued, now |-> now + 1]

\* The process dies in the loop of the confirmation: no answer is sent.
confirm_delivery_crash(delivery_id, confirmed_items, k) ==
    /\ delivery_id \in DOMAIN deliveries
    /\ CanConfirm(confirmed_items)
    /\ k \in 1..Len(confirmed_items)
    /\ ConfirmLoop([code |-> 200, materials |-> materials, issued |-> issued, updated |-> 0],
                   SubSeq(confirmed_items, 1, k), now + 1).code = 200
    /\ LET r == ConfirmCrashResult(delivery_id, confirmed_items, k) IN
        /\ materials' = r.materials
        /\ deliveries' = r.deliveries
        /\ issued' = r.issued
        /\ now' = r.now
    /\ response' = Fail("confirm_delivery_and_update_inventory", 0, "no response")
    /\ UNCHANGED <<tools, transactions, txnOk, txnWritten, checkedOnly>>
    /\ UNCHANGED <<suppliers, stock_takes, inflight>>

\* ---------------------------------------------------------------- suppliers

SupplierIds == {"s1", "s2"}

\* The supplier names tried, as sequences of characters: two that differ in
\* letter case only, a third of letters, and two holding characters a regular
\* expression reads as operators.
SupplierNames == {<<"a", "b">>, <<"A", "B">>, <<"b", "a">>, <<"a", ".">>, <<"(", "a", "b", ")">>}

SupplierTypes == {"electrical"}
Websites == {None, Some("https://www.screwfix.com")}

\* str.lower and str.upper on the characters tried.
Lower(c) == CASE c = "A" -> "a" [] c = "B" -> "b" [] OTHER -> c
Upper(c) == CASE c = "a" -> "A" [] c = "b" -> "B" [] OTHER -> c

\* The regular expression ^pattern$ with option i on a text: a dot stands
\* for any character, the parentheses of a group for none, any other
\* character for itself ignoring case.
RECURSIVE RegexMatches(_, _)
RegexMatches(pattern, text) ==
    IF pattern = <<>>
    THEN text = <<>>
    ELSE IF Head(pattern) \in {"(", ")"}
    THEN RegexMatches(Tail(pattern), text)
    ELSE IF text = <<>>
    THEN FALSE
    ELSE /\ Head(pattern) = "." \/ Lower(Head(pattern)) = Lower(Head(text))
         /\ RegexMatches(Tail(pattern), Tail(text))

\* What create_supplier answers and leaves in the store.
CreateSupplierResult(name, type, website) ==
    IF \E id \in DOMAIN suppliers : RegexMatches(name, suppliers[id].name)
    THEN [response |-> Fail("create_supplier", 409, "Supplier already exists"),
          suppliers |-> suppliers, issued |-> issued, now |-> now]
    ELSE LET id == NewId(SupplierIds) IN
         [response |-> Ok("create_supplier", [id |-> id]),
          suppliers |-> (id :> [name |-> name, type |-> type, website |-> website,
                                products |-> <<>>, updated_at |-> now + 1]) @@ suppliers,
          issued |-> issued \cup {id}, now |-> now + 1]

create_supplier(name, type, website) ==
    /\ HasNewId(SupplierIds)
    /\ LET r == CreateSupplierResult(name, type, website) IN
        /\ response' = r.response
        /\ suppliers' = r.suppliers
        /\ issued' = r.issued
        /\ now' = r.now
    /\ UNCHANGED <<materials, tools, transactions, deliveries, txnOk, txnWritten, checkedOnly>>
    /\ UNCHANGED <<stock_takes, inflight>>

\* What update_supplier answers and leaves in the store: the fields of
\* SupplierCreate are set on the id, with no look at the other names.
UpdateSupplierResult(supplier_id, name, type, website) ==
    IF supplier_id \notin DOMAIN suppliers
    THEN [response |-> Fail("update_supplier", 404, "Supplier not found"), suppliers |-> suppliers, now |-> now]
    ELSE [response |-> Ok("update_supplier", [id |-> supplier_id]),
          suppliers |-> [suppliers EXCEPT ![supplier_id].name = name, ![supplier_id].type = type,
                                          ![supplier_id].website = website, ![supplier_id].updated_at = now + 1],
          now |-> now + 1]

update_supplier(supplier_id, name, type, website) ==
    /\ LET r == UpdateSupplierResult(supplier_id, name, type, website) IN
        /\ response' = r.response
        /\ suppliers' = r.suppliers
        /\ now' = r.now
    /\ UNCHANGED <<materials, tools, transactions, deliveries, issued, txnOk, txnWritten, checkedOnly>>
    /\ UNCHANGED <<stock_takes, inflight>>

delete_supplier(supplier_id) ==
    /\ IF supplier_id \notin DOMAIN suppliers
       THEN /\ response' = Fail("delete_supplier", 404, "Supplier not found")
            /\ UNCHANGED suppliers
       ELSE /\ suppliers' = [i \in DOMAIN suppliers \ {supplier_id} |-> suppliers[i]]
            /\ response' = Ok("delete_supplier", [message |-> "Supplier deleted successfully"])
    /\ UNCHANGED <<materials, tools, transactions, deliveries, issued, now, txnOk, txnWritten, checkedOnly>>
    /\ UNCHANGED <<stock_takes, inflight>>

\* The product a caller adds by hand.
ManualProduct(supplier_id) ==
    [product_code |-> <<<<>>, "MAN-001">>, category |-> "manual", supplier_id |-> supplier_id]

\* add_supplier_product: $push on the products array.
add_supplier_product(supplier_id) ==
    /\ IF supplier_id \notin DOMAIN suppliers
       THEN /\ response' = Fail("add_supplier_product", 404, "Supplier not found")
            /\ UNCHANGED <<suppliers, now>>
       ELSE /\ suppliers' = [suppliers EXCEPT ![supplier_id].products = Append(@, ManualProduct(supplier_id)),
                                              ![supplier_id].updated_at = now + 1]
            /\ response' = Ok("add_supplier_product", ManualProduct(supplier_id))
            /\ now' = now + 1
    /\ UNCHANGED <<materials, tools, transactions, deliveries, issued, txnOk, txnWritten, checkedOnly>>
    /\ UNCHANGED <<stock_takes, inflight>>

\* The slice of ai_products the scan keeps.
MaxProducts == 5

Min(a, b) == IF a <= b THEN a ELSE b

\* supplier.name.upper()[:3]
Abbrev(name) == [i \in 1..Min(3, Len(name)) |-> Upper(name[i])]

\* The five templated products of the fallback.
FallbackCodes == <<"PRO-001", "STD-002", "HD-003", "EMG-004", "MNT-005">>

FallbackProducts(supplier, supplier_id) ==
    [i \in DOMAIN FallbackCodes |->
        [product_code |-> <<Abbrev(supplier.name), FallbackCodes[i]>>,
         category |-> supplier.type, supplier_id |-> supplier_id]]

\* The answers of the language model tried: the call raises, text that is no
\* JSON, JSON that is no array, and JSON arrays of 0, 3, 5 and 6 products
\* (each product a code and a category).
AiCodes == <<"AI-001", "AI-002", "AI-003", "AI-004", "AI-005", "AI-006">>

LlmAnswers ==
    {[kind |-> "raises", products |-> <<>>],
     [kind |-> "text", products |-> <<>>],
     [kind |-> "object", products |-> <<>>]}
    \cup {[kind |-> "array", products |-> SubSeq(AiCodes, 1, n)] : n \in {0, 3, 5, 6}}

\* The loop over ai_products[:5].
EnhancedProducts(ai_products, supplier_id) ==
    [i \in 1..Min(MaxProducts, Len(ai_products)) |->
        [product_code |-> <<<<>>, ai_products[i]>>, category |-> "general", supplier_id |-> supplier_id]]

\* The products of a scan: from the parsed answer, or the fallback when
\* anything inside the try of the model call raised.
ScannedProducts(supplier, supplier_id, answer) ==
    IF answer.kind = "array"
    THEN EnhancedProducts(answer.products, supplier_id)
    ELSE FallbackProducts(supplier, supplier_id)

\* 'ai_products' in locals(): json.loads returned.
ScanMethod(answer) == IF answer.kind \in {"array", "object"} THEN "AI-powered" ELSE "Enhanced fallback"

\* ScanResult that appends the scanned products to the stored ones.
ScanResult_Merges(supplier_id, website_arg, key_configured, fetched, answer) ==
    LET failed(code, detail) ==
            [response |-> Fail("scan_supplier_products", code, detail), suppliers |-> suppliers, now |-> now]
    IN
    IF supplier_id \notin DOMAIN suppliers
    THEN failed(404, "Supplier not found")
    ELSE LET supplier == suppliers[supplier_id]
             website == IF IsSome(website_arg) THEN website_arg ELSE supplier.website
         IN  IF ~Truthy(website)
             THEN failed(400, "Website URL is required for product scanning")
             ELSE IF ~key_configured
             THEN failed(500, "LLM API key not configured")
             ELSE LET enhanced_products == ScannedProducts(supplier, supplier_id, answer) IN
                  [response |-> Ok("scan_supplier_products",
                                   [success |-> TRUE, products_found |-> Len(enhanced_products),
                                    products |-> enhanced_products, scan_method |-> ScanMethod(answer)]),
                   suppliers |-> [suppliers EXCEPT ![supplier_id].products = @ \o enhanced_products,
                                                   ![supplier_id].updated_at = now + 1],
                   now |-> now + 1]

\* What the scan answers and leaves in the store.  The handler re-raises
\* its HTTPExceptions as they are.
ScanResult(supplier_id, website_arg, key_configured, fetched, answer) ==
    LET failed(code, detail) ==
            [response |-> Fail("scan_supplier_products", code, detail), suppliers |-> suppliers, now |-> now]
    IN
    IF supplier_id \notin DOMAIN suppliers
    THEN failed(404, "Supplier not found")
    ELSE LET supplier == suppliers[supplier_id]
             website == IF IsSome(website_arg) THEN website_arg ELSE supplier.website
         IN  IF ~Truthy(website)
             THEN failed(400, "Website URL is required for product scanning")
             ELSE IF ~key_configured
             THEN failed(500, "LLM API key not configured")
             ELSE LET enhanced_products == ScannedProducts(supplier, supplier_id, answer) IN
                  [response |-> Ok("scan_supplier_products",
                                   [success |-> TRUE, products_found |-> Len(enhanced_products),
                                    products |-> enhanced_products, scan_method |-> ScanMethod(answer)]),
                   suppliers |-> [suppliers EXCEPT ![supplier_id].products = enhanced_products,
                                                   ![supplier_id].updated_at = now + 1],
                   now |-> now + 1]

scan_supplier_products(supplier_id, website_arg, key_configured, fetched, answer) ==
    /\ LET r == ScanResult(supplier_id, website_arg, key_configured, fetched, answer) IN
        /\ response' = r.response
        /\ suppliers' = r.suppliers
        /\ now' = r.now
    /\ UNCHANGED <<materials, tools, transactions, deliveries, issued, txnOk, txnWritten, checkedOnly>>
    /\ UNCHANGED <<stock_takes, inflight>>

\* ---------------------------------------------------------- specifications

\* Every route, each request served to its end before the next one starts.
\* SpecConcurrent below serves create_transaction await by await instead.
Next ==
    \/ now < MaxClock /\ \E q \in Amounts, ms \in MinStocks : create_material(q, ms)
    \/ now < MaxClock /\ \E id \in MatIds, q \in Amounts, ms \in MinStocks : update_material(id, q, ms)
    \/ now < MaxClock /\ \E st \in ToolStatus, cond \in CreateConditions : create_tool(st, cond)
    \/ now < MaxClock /\ \E id \in ToolIds, st \in ToolStatus, cond \in CreateConditions : update_tool(id, st, cond)
    \/ get_low_stock_alerts
    \/ now < MaxClock /\ \E items \in DeliveryItemLists : create_delivery(items)
    \/ now < MaxClock /\ \E id \in DeliveryIds, items \in ConfirmedItemLists : confirm_delivery_and_update_inventory(id, items)
    \/ now < MaxClock /\ \E id \in DeliveryIds, items \in ConfirmedItemLists, k \in 1..MaxItems : confirm_delivery_crash(id, items, k)
    \/ now < MaxClock /\ \E id \in DeliveryIds, photo \in Photos : process_delivery_note_with_ai(id, photo)
    \/ now < MaxClock /\ Len(transactions) < MaxLog /\ \E req \in TransactionCreate : create_transaction(req)
    \/ now < MaxClock /\ \E id \in MatIds : delete_material(id)
    \/ now < MaxClock /\ \E entries \in StockTakeEntryLists :
            Len(transactions) + Len(entries) <= MaxLog /\ create_stock_take(entries, "Alice")
    \/ now < MaxClock /\ \E name \in SupplierNames, type \in SupplierTypes, website \in Websites :
            create_supplier(name, type, website)
    \/ now < MaxClock /\ \E id \in SupplierIds, website \in Websites, key \in BOOLEAN, fetched \in BOOLEAN, answer \in LlmAnswers :
            scan_supplier_products(id, website, key, fetched, answer)
    \/ now < MaxClock /\ \E id \in SupplierIds, name \in SupplierNames, type \in SupplierTypes, website \in Websites :
            update_supplier(id, name, type, website)
    \/ \E id \in SupplierIds : delete_supplier(id)
    \/ now < MaxClock /\ \E id \in SupplierIds : add_supplier_product(id)

Spec == Init /\ [][Next]_vars

\* The routes that write materials, tools or the transaction log.
NextLedger ==
    \/ now < MaxLedgerClock /\ \E q \in Amounts, ms \in MinStocks : create_material(q, ms)
    \/ now < MaxLedgerClock /\ \E id \in MatIds, q \in Amounts, ms \in MinStocks : update_material(id, q, ms)
    \/ \E id \in MatIds : delete_material(id)
    \/ now < MaxLedgerClock /\ \E st \in ToolStatus, cond \in CreateConditions : create_tool(st, cond)
    \/ now < MaxLedgerClock /\ \E id \in ToolIds, st \in ToolStatus, cond \in CreateConditions : update_tool(id, st, cond)
    \/ now < MaxLedgerClock /\ Len(transactions) < MaxLog /\ \E req \in TransactionCreate : create_transaction(req)
    \/ now < MaxLedgerClock /\ \E entries \in StockTakeEntryLists :
            Len(transactions) + Len(entries) <= MaxLog /\ create_stock_take(entries, "Alice")
    \/ now < MaxLedgerClock /\ \E items \in DeliveryItemLists : create_delivery(items)
    \/ now < MaxLedgerClock /\ \E id \in DeliveryIds, items \in ConfirmedItemLists : confirm_delivery_and_update_inventory(id, items)

SpecLedger == Init /\ [][NextLedger]_vars

\* The stock-take route, with the routes that put items in the store and take
\* them out of it.
NextStockTake ==
    \/ now < MaxLedgerClock /\ \E q \in Amounts, ms \in MinStocks : create_material(q, ms)
    \/ \E id \in MatIds : delete_material(id)
    \/ now < MaxLedgerClock /\ \E st \in ToolStatus, cond \in CreateConditions : create_tool(st, cond)
    \/ now < MaxLedgerClock /\ \E entries \in StockTakeEntryLists :
            Len(transactions) + Len(entries) <= MaxLog /\ create_stock_take(entries, "Alice")

SpecStockTake == Init /\ [][NextStockTake]_vars

\* create_transaction await by await, two invocations at a time, with the
\* routes that put items in the store and take a material out of it.
NextConcurrent ==
    \/ now < MaxClock /\ \E q \in Amounts, ms \in MinStocks : create_material(q, ms)
    \/ \E id \in MatIds : delete_material(id)
    \/ now < MaxClock /\ \E cond \in CreateConditions : create_tool("available", cond)
    \/ \E p \in Procs, req \in ConcurrentRequests : txn_read(p, req)
    \/ now < MaxClock /\ \E p \in Procs : txn_update(p)
    \/ Len(transactions) < MaxLog /\ \E p \in Procs : txn_insert(p)
    \/ \E p \in Procs : txn_crash(p)

SpecConcurrent == Init /\ [][NextConcurrent]_vars

\* The supplier routes alone.
NextSuppliers ==
    \/ now < MaxClock /\ \E name \in SupplierNames, type \in SupplierTypes, website \in Websites :
            create_supplier(name, type, website)
    \/ now < MaxClock /\ \E id \in SupplierIds, website \in Websites, key \in BOOLEAN, fetched \in BOOLEAN, answer \in LlmAnswers :
            scan_supplier_products(id, website, key, fetched, answer)
    \/ now < MaxClock /\ \E id \in SupplierIds, name \in SupplierNames, type \in SupplierTypes, website \in Websites :
            update_supplier(id, name, type, website)
    \/ \E id \in SupplierIds : delete_supplier(id)
    \/ now < MaxClock /\ \E id \in SupplierIds : add_supplier_product(id)

SpecSuppliers == Init /\ [][NextSuppliers]_vars

\* The materials, tools and transactions routes alone.
NextInventory ==
    \/ now < MaxClock /\ \E q \in Amounts, ms \in MinStocks : create_material(q, ms)
    \/ now < MaxClock /\ \E id \in MatIds, q \in Amounts, ms \in MinStocks : update_material(id, q, ms)
    \/ now < MaxClock /\ \E st \in ToolStatus, cond \in CreateConditions : create_tool(st, cond)
    \/ now < MaxClock /\ \E id \in ToolIds, st \in ToolStatus, cond \in CreateConditions : update_tool(id, st, cond)
    \/ now < MaxClock /\ Len(transactions) < MaxLog /\ \E req \in TransactionCreate : create_transaction(req)

SpecInventory == Init /\ [][NextInventory]_vars

\* The delivery routes, with the routes that put materials in the store and
\* the stock_take that can leave a material without a quantity.
NextDelivery ==
    \/ now < MaxClock /\ \E q \in Amounts, ms \in MinStocks : create_material(q, ms)
    \/ now < MaxClock /\ \E items \in DeliveryItemLists : create_delivery(items)
    \/ now < MaxClock /\ \E id \in DeliveryIds, items \in ConfirmedItemLists : confirm_delivery_and_update_inventory(id, items)
    \/ now < MaxClock /\ \E id \in DeliveryIds, items \in ConfirmedItemLists, k \in 1..MaxItems : confirm_delivery_crash(id, items, k)
    \/ now < MaxClock /\ \E id \in DeliveryIds, photo \in Photos : process_delivery_note_with_ai(id, photo)
    \/ now < MaxClock /\ Len(transactions) < MaxLog
         /\ \E req \in {r \in TransactionCreate : r.transaction_type = "stock_take"} : create_transaction(req)

SpecDelivery == Init /\ [][NextDelivery]_vars

\* ------------------------------------------------------------------ claims

\* The requests of each transaction type.
TakeRequests == {req \in TransactionCreate : req.transaction_type = "take"}
RestockRequests == {req \in TransactionCreate : req.transaction_type = "restock"}
StockTakeRequests == {req \in TransactionCreate : req.transaction_type = "stock_take"}
CheckOutRequests == {req \in TransactionCreate : req.transaction_type = "check_out"}
CheckInRequests == {req \in TransactionCreate : req.transaction_type = "check_in"}

\* A request on a material that exists and whose stored quantity is an
\* integer, carrying an integer amount.
OnMaterial(req) ==
    /\ req.item_type = "material"
    /\ req.item_id \in DOMAIN materials
    /\ IsSome(materials[req.item_id].quantity)
    /\ IsSome(req.quantity)

\* A request on a tool that exists.
OnTool(req) ==
    /\ req.item_type = "tool"
    /\ req.item_id \in DOMAIN tools

\* The last request was a create_transaction of this type, answered 200.
Accepted(type) ==
    /\ response.op = "create_transaction"
    /\ response.status = 200
    /\ response.body.transaction_type = type

\* C1: in every state, a take of q <= the stored quantity is accepted and
\* leaves the stored quantity minus q (q equal to the stock leaves 0); a take
\* of q > the stored quantity is answered 400 "Insufficient quantity" and
\* leaves the materials as they were.
C1_TakeContract ==
    \A req \in TakeRequests :
        OnMaterial(req) =>
            LET p == Get(materials[req.item_id].quantity)
                q == Get(req.quantity)
                r == TransactionResult(req)
            IN  IF q <= p
                THEN /\ r.response.status = 200
                     /\ r.materials[req.item_id].quantity = Some(p - q)
                ELSE /\ r.response = Fail("create_transaction", 400, "Insufficient quantity")
                     /\ r.materials = materials

\* C1's case: a take of the whole stock was accepted and left 0, and the
\* next take was refused with 400.
C1_Witness ==
    /\ response = Fail("create_transaction", 400, "Insufficient quantity")
    /\ Len(transactions) >= 1
    /\ transactions[Len(transactions)].transaction_type = "take"
    /\ transactions[Len(transactions)].item_type = "material"
    /\ transactions[Len(transactions)].item_id \in DOMAIN materials
    /\ materials[transactions[Len(transactions)].item_id].quantity = Some(0)

\* C2: in every state, a restock of q is accepted and leaves the stored
\* quantity at the previous stored quantity plus q.
C2_RestockAdds ==
    \A req \in RestockRequests :
        OnMaterial(req) =>
            LET r == TransactionResult(req) IN
            /\ r.response.status = 200
            /\ r.materials[req.item_id].quantity =
                   Some(Get(materials[req.item_id].quantity) + Get(req.quantity))

\* C2's case: a restock of 2 was accepted on a stock of 2 and left 4.
C2_Witness ==
    /\ Accepted("restock")
    /\ response.body.item_type = "material"
    /\ response.body.quantity = Some(2)
    /\ materials[response.body.item_id].quantity = Some(4)

\* C3: in every state, a stock_take is accepted and sets the stored quantity
\* to the counted value whatever the quantity was before, and the same
\* stock_take applied to the document it wrote leaves the same quantity.
C3_StockTakeSets ==
    \A req \in StockTakeRequests :
        OnMaterial(req) =>
            LET r == TransactionResult(req)
                again == MaterialBranch(r.materials[req.item_id], Transaction(req))
            IN  /\ r.response.status = 200
                /\ r.materials[req.item_id].quantity = req.quantity
                /\ again.code = 200
                /\ again.doc.quantity = r.materials[req.item_id].quantity

\* C3's case: the same stock_take was applied twice in a row, and the stored
\* quantity is the counted value.
C3_Witness ==
    /\ Accepted("stock_take")
    /\ Len(transactions) = 2
    /\ transactions[1] = transactions[2]
    /\ response.body.item_type = "material"
    /\ IsSome(response.body.quantity)
    /\ materials[response.body.item_id].quantity = response.body.quantity

\* C4: in every state, a check_out on an available tool sets status to
\* in_use and current_user to the request's user_name; a check_in sets
\* status to available, clears current_user, and sets condition to the
\* request's condition when it carries one and leaves it alone otherwise.
C4_CheckOutCheckIn ==
    /\ \A req \in CheckOutRequests :
        (OnTool(req) /\ tools[req.item_id].status = "available") =>
            LET r == TransactionResult(req) IN
            /\ r.response.status = 200
            /\ r.tools[req.item_id].status = "in_use"
            /\ r.tools[req.item_id].current_user = Some(req.user_name)
            /\ r.tools[req.item_id].condition = tools[req.item_id].condition
    /\ \A req \in CheckInRequests :
        OnTool(req) =>
            LET r == TransactionResult(req) IN
            /\ r.response.status = 200
            /\ r.tools[req.item_id].status = "available"
            /\ r.tools[req.item_id].current_user = None
            /\ r.tools[req.item_id].condition =
                   IF IsSome(req.condition) THEN Get(req.condition) ELSE tools[req.item_id].condition

\* C4's case: Alice checked the tool out and it was checked in with
\* condition fair; it is available, has no holder, and its condition is fair.
C4_Witness ==
    /\ Len(transactions) = 2
    /\ transactions[1].transaction_type = "check_out"
    /\ transactions[1].user_name = "Alice"
    /\ transactions[2].transaction_type = "check_in"
    /\ transactions[2].condition = Some("fair")
    /\ transactions[1].item_id = transactions[2].item_id
    /\ transactions[2].item_id \in DOMAIN tools
    /\ tools[transactions[2].item_id].status = "available"
    /\ tools[transactions[2].item_id].current_user = None
    /\ tools[transactions[2].item_id].condition = "fair"

\* C5: in every state, a create_transaction request that is answered 200
\* appends exactly one record, which carries the request's item_id,
\* item_type, transaction_type, quantity and condition, and a request that
\* is not answered 200 appends none; and the records create_transaction has
\* written are as many as the requests it has answered 200.
C5_OneRecordPerSuccess ==
    /\ txnWritten = txnOk
    /\ txnWritten <= Len(transactions)
    /\ \A req \in TransactionCreate :
        LET r == TransactionResult(req) IN
        IF r.response.status = 200
        THEN /\ Len(r.transactions) = Len(transactions) + 1
             /\ SubSeq(r.transactions, 1, Len(transactions)) = transactions
             /\ LET rec == r.transactions[Len(r.transactions)] IN
                 /\ rec.item_id = req.item_id
                 /\ rec.item_type = req.item_type
                 /\ rec.transaction_type = req.transaction_type
                 /\ rec.quantity = req.quantity
                 /\ rec.condition = req.condition
        ELSE r.transactions = transactions

\* C5's case: two requests were answered 200, the last a take with a
\* quantity, and two records are in the log.
C5_Witness ==
    /\ txnOk = 2
    /\ Len(transactions) = 2
    /\ Accepted("take")
    /\ IsSome(transactions[2].quantity)

\* The item_id of the request is no record of its item_type.
NotResolved(req) ==
    \/ req.item_type = "material" /\ req.item_id \notin DOMAIN materials
    \/ req.item_type = "tool" /\ req.item_id \notin DOMAIN tools

\* The detail of the 404 of an item type.
NotFound(item_type) == IF item_type = "material" THEN "Material not found" ELSE "Tool not found"

\* The request left every collection and the clock as they were.
NoSideEffects(r) ==
    /\ r.materials = materials
    /\ r.tools = tools
    /\ r.transactions = transactions
    /\ r.now = now

\* C6: in every state, a create_transaction request whose item_id is no
\* record of its item_type is answered 404, a take of more than the stock is
\* answered 400, and either leaves every material, every tool (updated_at
\* included) and the transaction log as they were.
C6_RejectedNoSideEffects ==
    /\ \A req \in TransactionCreate :
        NotResolved(req) =>
            /\ TransactionResult(req).response = Fail("create_transaction", 404, NotFound(req.item_type))
            /\ NoSideEffects(TransactionResult(req))
    /\ \A req \in TakeRequests :
        (OnMaterial(req) /\ Get(req.quantity) > Get(materials[req.item_id].quantity)) =>
            /\ TransactionResult(req).response = Fail("create_transaction", 400, "Insufficient quantity")
            /\ NoSideEffects(TransactionResult(req))

\* C6's case: a request was answered 404 while a material exists and a
\* record is in the log.
C6_Witness ==
    /\ response = Fail("create_transaction", 404, "Tool not found")
    /\ DOMAIN materials # {}
    /\ Len(transactions) = 1

\* The materials whose stored quantity is a number at or below their min_stock.
AtOrBelowMinStock ==
    {id \in DOMAIN materials :
        IsSome(materials[id].quantity) /\ Get(materials[id].quantity) <= materials[id].min_stock}

\* Every stored quantity is a number.
QuantitiesAreIntegers == \A id \in DOMAIN materials : IsSome(materials[id].quantity)

\* One transaction of the scenario applied to a material document.
After(doc, type, q) ==
    MaterialBranch(doc, [transaction_type |-> type, quantity |-> Some(q)]).doc

\* The filter of the low-stock query on one document.
Listed(doc) == Lte(doc.quantity, doc.min_stock)

\* C7, the scenario: on Material{quantity=100, min_stock=20}, take(30) leaves
\* 70, not listed; take(60) leaves 10, listed; restock(5) leaves 15, listed;
\* stock_take(25) leaves 25, not listed.
C7_Scenario ==
    LET d0 == [quantity |-> Some(100), min_stock |-> 20, updated_at |-> 0]
        d1 == After(d0, "take", 30)
        d2 == After(d1, "take", 60)
        d3 == After(d2, "restock", 5)
        d4 == After(d3, "stock_take", 25)
    IN  /\ d1.quantity = Some(70) /\ ~Listed(d1)
        /\ d2.quantity = Some(10) /\ Listed(d2)
        /\ d3.quantity = Some(15) /\ Listed(d3)
        /\ d4.quantity = Some(25) /\ ~Listed(d4)

\* C7, where every stored quantity is a number: the low-stock query answers
\* exactly the materials at or below their min_stock.
C7_ExactWhenIntegers ==
    QuantitiesAreIntegers =>
        LowStockAlerts = Ok("get_low_stock_alerts",
                            [count |-> Cardinality(AtOrBelowMinStock), materials |-> AtOrBelowMinStock])

\* C7: in every state, the low-stock query answers exactly the materials
\* whose stored quantity is at or below their min_stock, and the scenario on
\* Material{quantity=100, min_stock=20} goes as stated.
C7_LowStockQuery ==
    /\ LowStockAlerts = Ok("get_low_stock_alerts",
                           [count |-> Cardinality(AtOrBelowMinStock), materials |-> AtOrBelowMinStock])
    /\ C7_Scenario

\* C8: in every reachable state, every material's stored quantity is >= 0.
C8_QuantityNonNegative ==
    \A id \in DOMAIN materials :
        IsSome(materials[id].quantity) => Get(materials[id].quantity) >= 0

\* C9: a tool created with the default status and since changed by check_out
\* and check_in only has a holder when it is in_use and none when it is
\* available.
C9_HolderInvariant ==
    \A id \in checkedOnly :
        /\ tools[id].status = "in_use" => IsSome(tools[id].current_user)
        /\ tools[id].status = "available" => tools[id].current_user = None

\* C9's case: such a tool was checked out and checked in, and is available.
C9_Witness ==
    \E id \in checkedOnly :
        /\ Len(transactions) = 2
        /\ transactions[1].transaction_type = "check_out"
        /\ transactions[2].transaction_type = "check_in"
        /\ transactions[2].item_id = id
        /\ transactions[1].item_id = id
        /\ tools[id].status = "available"

\* The loop raises: an item with a positive quantity is matched to a stored
\* material whose quantity is null.
LoopRaises(confirmed_items) ==
    \E i \in DOMAIN confirmed_items :
        /\ confirmed_items[i].quantity_received > 0
        /\ ~confirmed_items[i].is_new_item
        /\ IsSome(confirmed_items[i].matched_inventory_id)
        /\ Get(confirmed_items[i].matched_inventory_id) \in DOMAIN materials
        /\ ~IsSome(materials[Get(confirmed_items[i].matched_inventory_id)].quantity)

\* C10: in every state, the confirmation of a stored delivery whose loop
\* does not raise is answered 200 and leaves the delivery completed,
\* user_confirmed and with an actual_delivery_date, whatever the confirmed
\* quantities sum to (less than expected, or nothing at all).
C10_ConfirmCompletes ==
    \A id \in DOMAIN deliveries : \A confirmed_items \in ConfirmedItemLists :
        (CanConfirm(confirmed_items) /\ ~LoopRaises(confirmed_items)) =>
            LET r == ConfirmResult(id, confirmed_items) IN
            /\ r.response.status = 200
            /\ r.deliveries[id].status = "completed"
            /\ r.deliveries[id].user_confirmed
            /\ IsSome(r.deliveries[id].actual_delivery_date)
            /\ r.deliveries[id].total_items_received = Sum(QuantitiesReceived(confirmed_items))

\* C10's case: a delivery is completed with less received than expected.
C10_Witness ==
    \E id \in DOMAIN deliveries :
        /\ response.op = "confirm_delivery_and_update_inventory"
        /\ response.status = 200
        /\ deliveries[id].status = "completed"
        /\ deliveries[id].total_items_received < deliveries[id].total_items_expected

\* C11: in every state, process-delivery-note and confirm-and-update-inventory
\* on a delivery id that is not stored answer 404, process-delivery-note
\* without a delivery_note_photo answers 400, and none of these requests
\* changes the stored deliveries.
C11_TypedDeliveryErrors ==
    /\ \A id \in DeliveryIds \ DOMAIN deliveries :
        /\ \A photo \in Photos :
            /\ ProcessNoteResult(id, photo).response.status = 404
            /\ ProcessNoteResult(id, photo).deliveries = deliveries
        /\ \A confirmed_items \in ConfirmedItemLists :
            /\ ConfirmResult(id, confirmed_items).response.status = 404
            /\ ConfirmResult(id, confirmed_items).deliveries = deliveries
    /\ \A id \in DOMAIN deliveries :
        \A photo \in {ph \in Photos : ~Truthy(ph)} :
            /\ ProcessNoteResult(id, photo).response.status = 400
            /\ ProcessNoteResult(id, photo).deliveries = deliveries

\* C11, the part that holds: the requests that raise inside the handlers
\* leave the stored deliveries as they were.
C11_ErrorsChangeNoDelivery ==
    /\ \A id \in DeliveryIds : \A photo \in Photos :
        ProcessNoteResult(id, photo).response.status # 200 =>
            ProcessNoteResult(id, photo).deliveries = deliveries
    /\ \A id \in DeliveryIds \ DOMAIN deliveries : \A confirmed_items \in ConfirmedItemLists :
        ConfirmResult(id, confirmed_items).deliveries = deliveries

\* The scans that pass the handler's checks of the supplier and the website.
ScanInputs == SupplierIds \X Websites \X BOOLEAN \X BOOLEAN \X LlmAnswers

\* The result of a scan on its inputs.
ScanOf(in) == ScanResult(in[1], in[2], in[3], in[4], in[5])

\* The scan names a stored supplier and a website.
Scannable(in) ==
    /\ in[1] \in DOMAIN suppliers
    /\ Truthy(IF IsSome(in[2]) THEN in[2] ELSE suppliers[in[1]].website)

\* C12: in every state, every scan that is answered success returns
\* products_found = 5 and a products list of length 5, and stores that list,
\* whatever the language model answered.
C12_ScanReturnsFive ==
    \A in \in ScanInputs :
        ScanOf(in).response.status = 200 =>
            /\ ScanOf(in).response.body.products_found = 5
            /\ Len(ScanOf(in).response.body.products) = 5
            /\ Len(ScanOf(in).suppliers[in[1]].products) = 5

\* C12, the part that holds: a successful scan returns at most 5 products,
\* stores what it returns, and returns exactly 5 unless the model answered a
\* JSON array of fewer than 5.
C12_ScanReturnsAtMostFive ==
    \A in \in ScanInputs :
        ScanOf(in).response.status = 200 =>
            /\ ScanOf(in).response.body.products_found = Len(ScanOf(in).response.body.products)
            /\ ScanOf(in).suppliers[in[1]].products = ScanOf(in).response.body.products
            /\ ScanOf(in).response.body.products_found <= 5
            /\ (in[5].kind # "array" \/ Len(in[5].products) >= 5) =>
                   ScanOf(in).response.body.products_found = 5

\* An external call of the scan failed: the website fetch, the lookup of the
\* API key, the model call, or the parsing of the model's answer.
ExternalFailure(in) == ~in[4] \/ ~in[3] \/ in[5].kind \in {"raises", "text"}

\* C13: in every state, a scan of a stored supplier with a website in which
\* an external call failed is answered success with the 5 templated fallback
\* products of the supplier's name and type.
C13_FailuresFallBack ==
    \A in \in ScanInputs :
        (Scannable(in) /\ ExternalFailure(in)) =>
            /\ ScanOf(in).response.status = 200
            /\ ScanOf(in).response.body.products = FallbackProducts(suppliers[in[1]], in[1])
            /\ Len(ScanOf(in).response.body.products) = 5

\* C13, the part that holds: with the API key configured, a failed model
\* call or an answer that is no JSON array is answered success with the 5
\* fallback products, and a failed website fetch alone changes nothing of
\* the answer.
C13_ModelFailuresFallBack ==
    \A in \in ScanInputs :
        (Scannable(in) /\ in[3]) =>
            /\ ScanOf(in).response.status = 200
            /\ in[5].kind # "array" =>
                /\ ScanOf(in).response.body.products = FallbackProducts(suppliers[in[1]], in[1])
                /\ Len(ScanOf(in).response.body.products) = 5
            /\ ScanOf(<<in[1], in[2], in[3], ~in[4], in[5]>>) = ScanOf(in)

\* Two names are equal ignoring letter case.
SameName(a, b) == [i \in DOMAIN a |-> Lower(a[i])] = [i \in DOMAIN b |-> Lower(b[i])]

\* A supplier of that name, ignoring case, is stored.
NamePresent(name) == \E id \in DOMAIN suppliers : SameName(name, suppliers[id].name)

\* C14: in every state with room for a supplier, create_supplier with a name
\* that equals a stored supplier's name ignoring case is answered 409 and
\* stores nothing; with a name not yet present it stores exactly one new
\* supplier of that name.
C14_CreateSupplierNoDuplicates ==
    \A name \in SupplierNames, type \in SupplierTypes, website \in Websites :
        HasNewId(SupplierIds) =>
            LET r == CreateSupplierResult(name, type, website) IN
            IF NamePresent(name)
            THEN r.response.status = 409 /\ r.suppliers = suppliers
            ELSE /\ r.response.status = 200
                 /\ Cardinality(DOMAIN r.suppliers) = Cardinality(DOMAIN suppliers) + 1
                 /\ \A id \in DOMAIN suppliers : r.suppliers[id] = suppliers[id]
                 /\ \E id \in DOMAIN r.suppliers \ DOMAIN suppliers : r.suppliers[id].name = name

\* The name holds only letters.
IsPlain(name) == \A i \in DOMAIN name : name[i] \notin {".", "(", ")"}

\* C14, the part that holds: while every name, stored or requested, holds
\* only letters, create_supplier refuses exactly the names present ignoring
\* case.
C14_PlainNamesNoDuplicates ==
    \A name \in SupplierNames, type \in SupplierTypes, website \in Websites :
        (/\ HasNewId(SupplierIds)
         /\ IsPlain(name)
         /\ \A id \in DOMAIN suppliers : IsPlain(suppliers[id].name)) =>
            LET r == CreateSupplierResult(name, type, website) IN
            IF NamePresent(name)
            THEN r.response.status = 409 /\ r.suppliers = suppliers
            ELSE r.response.status = 200 /\ Cardinality(DOMAIN r.suppliers) = Cardinality(DOMAIN suppliers) + 1

\* C15: no step of the system updates or removes a stored Transaction: the
\* log after a step is the log before it with records appended at the end.
C15_LogAppendOnly ==
    [][/\ Len(transactions') >= Len(transactions)
       /\ SubSeq(transactions', 1, Len(transactions)) = transactions]_vars

\* C15's case: a material was hard-deleted and its record is still in the log.
C15_Witness ==
    /\ response.op = "delete_material"
    /\ response.status = 200
    /\ \E i \in DOMAIN transactions :
        /\ transactions[i].item_type = "material"
        /\ transactions[i].item_id \in issued \ DOMAIN materials

\* The last entry of the list on the item, or none.
LastEntryOn(entries, item_id, item_type, wanted(_)) ==
    LET on == {i \in DOMAIN entries :
                  entries[i].item_id = item_id /\ entries[i].item_type = item_type /\ wanted(entries[i])}
    IN  IF on = {} THEN None ELSE Some(entries[CHOOSE i \in on : \A j \in on : j <= i])

\* C16: in every state, a stock-take batch is answered with a StockTake
\* record that is stored with completed = true; it appends one stock_take
\* Transaction per entry, in list order, after the records already there;
\* every stored material an entry names holds the count of the last such
\* entry, every stored tool the condition of the last entry that carries one,
\* whatever they held before; no other material or tool field but updated_at
\* changes.
C16_StockTakeBatch ==
    \A entries \in StockTakeEntryLists :
        LET r == StockTakeResult(entries, "Alice") IN
        /\ r.response.status = 200
        /\ r.response.body.completed
        /\ r.stock_takes = Append(stock_takes, r.response.body)
        /\ r.stock_takes[Len(r.stock_takes)].entries = entries
        /\ Len(r.transactions) = Len(transactions) + Len(entries)
        /\ SubSeq(r.transactions, 1, Len(transactions)) = transactions
        /\ \A i \in DOMAIN entries :
            LET t == r.transactions[Len(transactions) + i] IN
            /\ t.transaction_type = "stock_take"
            /\ t.item_id = entries[i].item_id
            /\ t.item_type = entries[i].item_type
            /\ entries[i].item_type = "material" => t.quantity = Some(entries[i].counted_quantity)
            /\ t.condition = entries[i].condition
        /\ DOMAIN r.materials = DOMAIN materials
        /\ \A id \in DOMAIN materials :
            LET last == LastEntryOn(entries, id, "material", LAMBDA e : TRUE) IN
            /\ r.materials[id].quantity =
                   IF IsSome(last) THEN Some(Get(last).counted_quantity) ELSE materials[id].quantity
            /\ r.materials[id].min_stock = materials[id].min_stock
        /\ DOMAIN r.tools = DOMAIN tools
        /\ \A id \in DOMAIN tools :
            LET last == LastEntryOn(entries, id, "tool", LAMBDA e : IsSome(e.condition)) IN
            /\ r.tools[id].condition =
                   IF IsSome(last) THEN Get(Get(last).condition) ELSE tools[id].condition
            /\ r.tools[id].status = tools[id].status
            /\ r.tools[id].current_user = tools[id].current_user

\* C16's case: a batch of two counts of the same material was stored: the
\* material holds the second count and the log holds both records in order.
C16_Witness ==
    /\ response.op = "create_stock_take"
    /\ Len(stock_takes) = 1
    /\ stock_takes[1].completed
    /\ Len(stock_takes[1].entries) = 2
    /\ stock_takes[1].entries[1].counted_quantity = 2
    /\ stock_takes[1].entries[2].counted_quantity = 0
    /\ "m1" \in DOMAIN materials
    /\ materials["m1"].quantity = Some(0)
    /\ Len(transactions) = 2
    /\ transactions[1].quantity = Some(2)
    /\ transactions[2].quantity = Some(0)

\* The entry names no stored item of its type.
EntryTargetMissing(entry) ==
    \/ entry.item_type = "material" /\ entry.item_id \notin DOMAIN materials
    \/ entry.item_type = "tool" /\ entry.item_id \notin DOMAIN tools

\* The first i entries of the batch are applied in the result.
EarlierEntriesApplied(r, entries, i) ==
    LET before == StockTakeLoop([materials |-> materials, tools |-> tools, transactions |-> transactions],
                                SubSeq(entries, 1, i - 1), "Alice", now + 1)
    IN  /\ SubSeq(r.transactions, 1, Len(transactions) + i - 1) = before.transactions
        /\ \A id \in DOMAIN materials :
            (\A j \in i..Len(entries) : entries[j].item_id # id) => r.materials[id] = before.materials[id]

\* C20: in every state, a batch with an entry on an item that is not stored,
\* after an entry on a stored item, fails, and the entries before that entry
\* stay applied: their overwrites and their Transactions.
C20_MissingEntryFails ==
    \A entries \in StockTakeEntryLists : \A i \in DOMAIN entries :
        (EntryTargetMissing(entries[i]) /\ i > 1 /\ ~EntryTargetMissing(entries[1])) =>
            /\ StockTakeResult(entries, "Alice").response.status # 200
            /\ EarlierEntriesApplied(StockTakeResult(entries, "Alice"), entries, i)

\* C20, the part that holds: the entries before an entry on a missing item
\* stay applied; the entry itself does not fail: it changes no item, appends
\* its Transaction, and the batch is answered as completed.
C20_MissingEntryIsSkipped ==
    \A entries \in StockTakeEntryLists : \A i \in DOMAIN entries :
        EntryTargetMissing(entries[i]) =>
            LET r == StockTakeResult(entries, "Alice") IN
            /\ r.response.status = 200
            /\ r.response.body.completed
            /\ r.transactions[Len(transactions) + i].item_id = entries[i].item_id
            /\ EarlierEntriesApplied(r, entries, i)

\* C16 as first stated: the condition of a stored tool is overwritten with the
\* value of the last tool entry on it, whether or not that entry carries one.
C16_OverwritesUnconditionally ==
    \A entries \in StockTakeEntryLists :
        LET r == StockTakeResult(entries, "Alice") IN
        \A id \in DOMAIN tools :
            LET last == LastEntryOn(entries, id, "tool", LAMBDA e : TRUE) IN
            IsSome(last) => Some(r.tools[id].condition) = Get(last).condition

\* C18: the direct writes of a tool ignore its holder: an accepted update_tool
\* stores the status it is given and leaves every tool's current_user as it
\* was, and create_tool stores the new tool without a current_user whatever
\* its status; so neither keeps status and holder in step.
C18_DirectWritesIgnoreHolder ==
    [][/\ (response'.op = "update_tool" /\ response'.status = 200) =>
            /\ DOMAIN tools' = DOMAIN tools
            /\ \A id \in DOMAIN tools : tools'[id].current_user = tools[id].current_user
            /\ tools'[response'.body.id].updated_at = now'
       /\ response'.op = "create_tool" =>
            \A id \in DOMAIN tools' \ DOMAIN tools : tools'[id].current_user = None]_vars

\* C18's case: a tool checked out by a user was made available by a direct
\* update and still names its holder.
C18_Witness ==
    /\ response.op = "update_tool"
    /\ response.status = 200
    /\ \E id \in DOMAIN tools :
        /\ tools[id].status = "available"
        /\ IsSome(tools[id].current_user)
        /\ \E i \in DOMAIN transactions :
            transactions[i].item_id = id /\ transactions[i].transaction_type = "check_out"

\* A tool is in_use straight from create_tool and has no holder.
C18_CreatedInUse ==
    /\ response.op = "create_tool"
    /\ tools[response.body.id].status = "in_use"
    /\ tools[response.body.id].current_user = None

\* Invocations p and q are two finished takes on the same stored material that
\* both read the same document, each for no more than the quantity read and
\* together for more.
BothTook(p, q) ==
    /\ p # q
    /\ inflight[p].pc = "done"
    /\ inflight[q].pc = "done"
    /\ LET rp == Get(inflight[p].req)
           rq == Get(inflight[q].req)
           start == Get(Get(inflight[p].seen).quantity)
       IN  /\ rp.item_type = "material"
           /\ rq.item_type = "material"
           /\ rp.item_id = rq.item_id
           /\ rp.item_id \in DOMAIN materials
           /\ rp.transaction_type = "take"
           /\ rq.transaction_type = "take"
           /\ inflight[p].seen = inflight[q].seen
           /\ Get(rp.quantity) >= 0
           /\ Get(rq.quantity) >= 0
           /\ Get(rp.quantity) <= start
           /\ Get(rq.quantity) <= start
           /\ Get(rp.quantity) + Get(rq.quantity) > start

\* C17 (amended): two such takes both succeed and both records are in the
\* log, and the stored document is the one written last: its quantity is the
\* quantity read minus the amount of that take alone, which is not negative.
C17_ConcurrentTakesLoseOne ==
    \A p \in Procs, q \in Procs :
        BothTook(p, q) =>
            LET id == Get(inflight[p].req).item_id
                start == Get(Get(inflight[p].seen).quantity)
                last == IF Get(inflight[p].doc).updated_at > Get(inflight[q].doc).updated_at THEN p ELSE q
            IN  /\ materials[id] = Get(inflight[last].doc)
                /\ Get(materials[id].quantity) = start - Get(Get(inflight[last].req).quantity)
                /\ Get(materials[id].quantity) >= 0
                /\ Len(transactions) = 2
                /\ {transactions[1], transactions[2]} =
                       {Transaction(Get(inflight[p].req)), Transaction(Get(inflight[q].req))}
                /\ txnOk = 2

\* C17's case: two takes of 2 and 1 read a stock of 2 and both finished.
C17_Witness ==
    \E p \in Procs, q \in Procs :
        /\ BothTook(p, q)
        /\ Get(inflight[p].seen).quantity = Some(2)
        /\ Get(inflight[p].req).quantity = Some(2)
        /\ Get(inflight[q].req).quantity = Some(1)

\* C17 as first stated: after two such takes the stored quantity is below zero.
C17_DrivesBelowZero ==
    \A p \in Procs, q \in Procs :
        BothTook(p, q) => Get(materials[Get(inflight[p].req).item_id].quantity) < 0

Received(confirmed_items) == {i \in DOMAIN confirmed_items : confirmed_items[i].quantity_received > 0}

\* C21: in every state, the confirmation of a stored delivery is answered 200,
\* every item with quantity_received > 0 creates a Material or increments one
\* (so as many Material writes are counted as items were received), and the
\* Delivery is completed with actual_delivery_date set.
C21_EveryReceivedItemApplied ==
    \A id \in DOMAIN deliveries : \A confirmed_items \in ConfirmedItemLists :
        CanConfirm(confirmed_items) =>
            LET r == ConfirmResult(id, confirmed_items) IN
            /\ r.response.status = 200
            /\ r.response.body.materials_updated = Cardinality(Received(confirmed_items))
            /\ r.deliveries[id].status = "completed"
            /\ IsSome(r.deliveries[id].actual_delivery_date)

\* What holds of one pass of the loop in every state: an item not received
\* changes nothing; a received new item of type material adds one Material
\* holding quantity_received; a received item matched to a stored Material
\* with a quantity adds quantity_received to it; a received new item of
\* another type, and a received item matched to nothing stored, change nothing.
C21_OnePass ==
    \A item \in ConfirmedItems :
        LET st0 == [code |-> 200, materials |-> materials, issued |-> issued, updated |-> 0]
            st == ConfirmItem(st0, item, now + 1)
            matched == /\ ~item.is_new_item
                       /\ IsSome(item.matched_inventory_id)
                       /\ Get(item.matched_inventory_id) \in DOMAIN materials
        IN  (MatIds \ issued # {}) =>
            /\ item.quantity_received <= 0 => st = st0
            /\ (item.quantity_received > 0 /\ item.is_new_item /\ item.item_type = "material") =>
                    /\ Cardinality(DOMAIN st.materials \ DOMAIN materials) = 1
                    /\ \A n \in DOMAIN st.materials \ DOMAIN materials :
                            st.materials[n].quantity = Some(item.quantity_received)
                    /\ \A o \in DOMAIN materials : st.materials[o] = materials[o]
            /\ (item.quantity_received > 0 /\ item.is_new_item /\ item.item_type # "material") => st = st0
            /\ (item.quantity_received > 0 /\ matched
                    /\ IsSome(materials[Get(item.matched_inventory_id)].quantity)) =>
                    LET m == Get(item.matched_inventory_id) IN
                    /\ st.materials[m].quantity = Some(Get(materials[m].quantity) + item.quantity_received)
                    /\ \A o \in DOMAIN materials \ {m} : st.materials[o] = materials[o]
                    /\ DOMAIN st.materials = DOMAIN materials
            /\ (item.quantity_received > 0 /\ ~item.is_new_item /\ ~matched) => st = st0

\* The item raises in the loop: it was received and is matched to a stored
\* material whose quantity is null.
ItemRaises(item) ==
    /\ item.quantity_received > 0
    /\ ~item.is_new_item
    /\ IsSome(item.matched_inventory_id)
    /\ Get(item.matched_inventory_id) \in DOMAIN materials
    /\ ~IsSome(materials[Get(item.matched_inventory_id)].quantity)

\* The number of items before the first one that raises.
AppliedBeforeRaise(confirmed_items) ==
    (CHOOSE i \in DOMAIN confirmed_items :
        /\ ItemRaises(confirmed_items[i])
        /\ \A j \in 1..(i - 1) : ~ItemRaises(confirmed_items[j])) - 1

\* What the first k items add to the stored material m.
AddedTo(m, confirmed_items, k) ==
    Sum([i \in 1..k |->
            IF /\ confirmed_items[i].quantity_received > 0
               /\ ~confirmed_items[i].is_new_item
               /\ confirmed_items[i].matched_inventory_id = Some(m)
            THEN confirmed_items[i].quantity_received ELSE 0])

\* The materials ms are the stored ones with the writes of the first k items
\* applied and none undone: one new Material per received new material item,
\* and every stored Material incremented by what the items matched to it bring.
PrefixApplied(ms, confirmed_items, k) ==
    LET created == {i \in 1..k : /\ confirmed_items[i].quantity_received > 0
                                 /\ confirmed_items[i].is_new_item
                                 /\ confirmed_items[i].item_type = "material"}
    IN  /\ DOMAIN materials \subseteq DOMAIN ms
        /\ Cardinality(DOMAIN ms \ DOMAIN materials) = Cardinality(created)
        /\ \A n \in DOMAIN ms \ DOMAIN materials :
            \E i \in created : ms[n].quantity = Some(confirmed_items[i].quantity_received)
        /\ \A m \in DOMAIN materials :
            IF IsSome(materials[m].quantity)
            THEN ms[m].quantity = Some(Get(materials[m].quantity) + AddedTo(m, confirmed_items, k))
            ELSE ms[m] = materials[m]

\* C22: in every state, a confirmation whose loop raises is answered 500
\* with the deliveries as they were (the delivery is not completed by it) and
\* the Material writes of the items before the raising one in the store; a
\* process that dies after the writes of the first k items leaves the same:
\* those writes applied, the deliveries as they were.
C22_FanOutNotTransactional ==
    \A id \in DOMAIN deliveries : \A confirmed_items \in ConfirmedItemLists :
        CanConfirm(confirmed_items) =>
            /\ LoopRaises(confirmed_items) =>
                LET r == ConfirmResult(id, confirmed_items) IN
                /\ r.response.status = 500
                /\ r.deliveries = deliveries
                /\ PrefixApplied(r.materials, confirmed_items, AppliedBeforeRaise(confirmed_items))
            /\ \A k \in 1..Len(confirmed_items) :
                ~LoopRaises(SubSeq(confirmed_items, 1, k)) =>
                    LET c == ConfirmCrashResult(id, confirmed_items, k) IN
                    /\ c.deliveries = deliveries
                    /\ PrefixApplied(c.materials, confirmed_items, k)

\* C22's case: the process died in the confirmation after it created a
\* Material: the Material is stored and the delivery is still pending.
C22_Witness ==
    /\ response.op = "confirm_delivery_and_update_inventory"
    /\ response.status = 0
    /\ \E id \in DOMAIN deliveries : deliveries[id].status = "pending"
    /\ \E m \in DOMAIN materials : materials[m].min_stock = DefaultMinStock

\* The elements of a sequence.
Range(seq) == {seq[i] : i \in DOMAIN seq}

\* C23: in every state, a scan answered success leaves as the supplier's
\* stored products exactly the list it returns, whatever was stored before
\* (products of an earlier scan, products added by hand): a product stored
\* before that the scan does not return is gone, nothing is merged; the
\* supplier's other fields but updated_at and the other suppliers are as
\* they were.
C23_ScanReplacesProducts ==
    \A in \in ScanInputs :
        LET r == ScanOf(in) IN
        r.response.status = 200 =>
            /\ r.suppliers[in[1]].products = r.response.body.products
            /\ Len(r.suppliers[in[1]].products) = r.response.body.products_found
            /\ \A old \in Range(suppliers[in[1]].products) :
                old \notin Range(r.response.body.products) => old \notin Range(r.suppliers[in[1]].products)
            /\ ManualProduct(in[1]) \notin Range(r.suppliers[in[1]].products)
            /\ r.suppliers[in[1]].name = suppliers[in[1]].name
            /\ r.suppliers[in[1]].website = suppliers[in[1]].website
            /\ DOMAIN r.suppliers = DOMAIN suppliers
            /\ \A o \in DOMAIN suppliers \ {in[1]} : r.suppliers[o] = suppliers[o]

\* C23's case: the third request on a supplier was a scan answered success
\* with three products: these are the stored list, and no product added by
\* hand is in it.
C23_Witness ==
    /\ response.op = "scan_supplier_products"
    /\ response.status = 200
    /\ response.body.products_found = 3
    /\ \E id \in DOMAIN suppliers :
        /\ suppliers[id].updated_at = 3
        /\ suppliers[id].products = response.body.products
        /\ ManualProduct(id) \notin Range(suppliers[id].products)

\* C24: in every state, a scan answered success reports scan_method
\* "Enhanced fallback" exactly when the products it returns are the templated
\* fallback set, and "AI-powered" exactly when they were built from the
\* model's parsed answer.
C24_ScanMethodTellsFallback ==
    \A in \in ScanInputs :
        LET r == ScanOf(in) IN
        r.response.status = 200 =>
            /\ r.response.body.products = FallbackProducts(suppliers[in[1]], in[1])
                   <=> r.response.body.scan_method = "Enhanced fallback"
            /\ r.response.body.products = EnhancedProducts(in[5].products, in[1])
                   <=> r.response.body.scan_method = "AI-powered"

\* C24, the part that holds: "Enhanced fallback" is reported only with the
\* fallback products, and a scan whose products were built from the model's
\* answer reports "AI-powered".
C24_FallbackLabelIsTrue ==
    \A in \in ScanInputs :
        LET r == ScanOf(in) IN
        r.response.status = 200 =>
            /\ r.response.body.scan_method = "Enhanced fallback" =>
                   r.response.body.products = FallbackProducts(suppliers[in[1]], in[1])
            /\ in[5].kind = "array" => r.response.body.scan_method = "AI-powered"

\* What a take or a restock adds to the quantity.
Delta(req) == IF req.transaction_type = "take" THEN 0 - Get(req.quantity) ELSE Get(req.quantity)

\* Invocations p and q are two finished takes or restocks of the same stored
\* material.
BothOnMaterial(p, q) ==
    /\ p # q
    /\ inflight[p].pc = "done"
    /\ inflight[q].pc = "done"
    /\ Get(inflight[p].req).item_type = "material"
    /\ Get(inflight[q].req).item_type = "material"
    /\ Get(inflight[p].req).item_id = Get(inflight[q].req).item_id
    /\ Get(inflight[p].req).item_id \in DOMAIN materials

\* C25: when two requests on the same material both read the record before
\* either wrote, the stored record is the one the later writer computed from
\* its own read: the quantity read plus that request's change alone, while
\* both Transaction records are in the log; when the second read what the
\* first had written, the stored quantity is the first quantity read plus
\* both changes.
C25_LostUpdate ==
    \A p \in Procs, q \in Procs :
        BothOnMaterial(p, q) =>
            LET id == Get(inflight[p].req).item_id
                rp == Get(inflight[p].req)
                rq == Get(inflight[q].req)
                start == Get(Get(inflight[p].seen).quantity)
                last == IF Get(inflight[p].doc).updated_at > Get(inflight[q].doc).updated_at THEN p ELSE q
            IN  /\ Len(transactions) = 2
                /\ {transactions[1], transactions[2]} = {Transaction(rp), Transaction(rq)}
                /\ inflight[p].seen = inflight[q].seen =>
                    /\ materials[id] = Get(inflight[last].doc)
                    /\ Get(materials[id].quantity) = start + Delta(Get(inflight[last].req))
                /\ inflight[q].seen = inflight[p].doc =>
                    Get(materials[id].quantity) = start + Delta(rp) + Delta(rq)

\* C25's case: restocks of 1 and of 2 both read the same record and both
\* finished, and the stored quantity is the quantity read plus 1 or plus 2.
C25_Witness ==
    \E p \in Procs, q \in Procs :
        /\ BothOnMaterial(p, q)
        /\ inflight[p].seen = inflight[q].seen
        /\ Get(inflight[p].req).transaction_type = "restock"
        /\ Get(inflight[q].req).transaction_type = "restock"
        /\ Get(inflight[p].req).quantity = Some(1)
        /\ Get(inflight[q].req).quantity = Some(2)
        /\ Get(materials[Get(inflight[p].req).item_id].quantity) < Get(Get(inflight[p].seen).quantity) + 3

\* Two restocks, the second reading what the first wrote, both finished.
C25_OneAfterTheOther ==
    \E p \in Procs, q \in Procs :
        /\ BothOnMaterial(p, q)
        /\ inflight[q].seen = inflight[p].doc
        /\ Get(inflight[p].req).transaction_type = "restock"
        /\ Get(inflight[q].req).transaction_type = "restock"

\* C26: in every state, a check_out on a stored tool is accepted whatever
\* the tool's status and holder: it leaves the tool in_use with the
\* requester as current_user and appends one Transaction; a check_in on a
\* stored tool is accepted whatever its status: it leaves the tool available
\* with no holder and appends one Transaction.
C26_NoStatusGuard ==
    \A req \in TransactionCreate :
        (OnTool(req) /\ req.transaction_type \in {"check_out", "check_in"}) =>
            LET r == TransactionResult(req) IN
            /\ r.response.status = 200
            /\ r.transactions = Append(transactions, Transaction(req))
            /\ r.tools[req.item_id].status =
                   IF req.transaction_type = "check_out" THEN "in_use" ELSE "available"
            /\ r.tools[req.item_id].current_user =
                   IF req.transaction_type = "check_out" THEN Some(req.user_name) ELSE None

\* C26's case: the tool was checked out by Alice and then, still in use,
\* checked out by Bob, who is now its holder.
C26_Witness ==
    /\ Accepted("check_out")
    /\ Len(transactions) = 2
    /\ transactions[1].transaction_type = "check_out"
    /\ transactions[1].user_name = "Alice"
    /\ transactions[2].transaction_type = "check_out"
    /\ transactions[2].user_name = "Bob"
    /\ transactions[1].item_id = transactions[2].item_id
    /\ transactions[2].item_id \in DOMAIN tools
    /\ tools[transactions[2].item_id].current_user = Some("Bob")
    /\ tools[transactions[2].item_id].status = "in_use"

\* C27: in every state, the confirmation of a delivery that is completed
\* already, with a list whose loop does not raise, is answered 200 like the
\* first one: every stored Material is incremented again by what the items
\* matched to it bring, one more Material is created per received item
\* flagged is_new_item of type material, and the delivery stays completed.
C27_ConfirmNotIdempotent ==
    \A id \in DOMAIN deliveries : \A confirmed_items \in ConfirmedItemLists :
        (/\ deliveries[id].status = "completed"
         /\ CanConfirm(confirmed_items)
         /\ ~LoopRaises(confirmed_items)) =>
            LET r == ConfirmResult(id, confirmed_items) IN
            /\ r.response.status = 200
            /\ PrefixApplied(r.materials, confirmed_items, Len(confirmed_items))
            /\ r.response.body.materials_updated =
                   Cardinality(DOMAIN r.materials \ DOMAIN materials)
                   + Cardinality({i \in Received(confirmed_items) :
                                     /\ ~confirmed_items[i].is_new_item
                                     /\ IsSome(confirmed_items[i].matched_inventory_id)
                                     /\ Get(confirmed_items[i].matched_inventory_id) \in DOMAIN materials})
            /\ r.deliveries[id].status = "completed"

\* C27's case: a delivery was confirmed twice with one new item of 2: it is
\* completed and two Materials of 2 are stored, one from each confirmation.
C27_Witness ==
    /\ response.op = "confirm_delivery_and_update_inventory"
    /\ response.status = 200
    /\ \E id \in DOMAIN deliveries : deliveries[id].status = "completed" /\ deliveries[id].updated_at = 3
    /\ DOMAIN materials = {"m1", "m2"}
    /\ \A m \in DOMAIN materials :
        materials[m].quantity = Some(2) /\ materials[m].min_stock = DefaultMinStock
    /\ materials["m1"].updated_at = 2
    /\ materials["m2"].updated_at = 3

\* A take, restock or stock_take on a stored material that omits the quantity.
OmitsQuantity(req) ==
    /\ req.item_type = "material"
    /\ req.item_id \in DOMAIN materials
    /\ req.transaction_type \in {"take", "restock", "stock_take"}
    /\ req.quantity = None

\* C28: in every state every stored quantity is an integer, and a take,
\* restock or stock_take that omits the quantity is rejected, changes no
\* material and appends no Transaction.
C28_QuantityStaysInteger ==
    /\ QuantitiesAreIntegers
    /\ \A req \in TransactionCreate :
        OmitsQuantity(req) =>
            LET r == TransactionResult(req) IN
            /\ r.response.status # 200
            /\ r.materials = materials
            /\ r.transactions = transactions

\* C28, the part that holds: a take or a restock that omits the quantity is
\* answered 500 and changes nothing.
C28_TakeRestockRejected ==
    \A req \in TransactionCreate :
        (OmitsQuantity(req) /\ req.transaction_type # "stock_take") =>
            LET r == TransactionResult(req) IN
            /\ r.response.status = 500
            /\ r.materials = materials
            /\ r.transactions = transactions

\* The request's transaction_type does not belong to the item_type of the
\* stored item it names.
Mismatched(req) ==
    \/ /\ req.item_type = "material"
       /\ req.item_id \in DOMAIN materials
       /\ req.transaction_type \in {"check_out", "check_in"}
    \/ /\ OnTool(req)
       /\ req.transaction_type \in {"take", "restock", "stock_take"}

\* The request is answered 200, changes nothing but the updated_at of the
\* item it names, and appends its Transaction record.
RecordedWithoutChange(req) ==
    LET r == TransactionResult(req) IN
    /\ r.response.status = 200
    /\ r.materials = IF req.item_type = "material"
                     THEN [materials EXCEPT ![req.item_id].updated_at = now + 1] ELSE materials
    /\ r.tools = IF req.item_type = "tool"
                 THEN [tools EXCEPT ![req.item_id].updated_at = now + 1] ELSE tools
    /\ r.transactions = Append(transactions, Transaction(req))

\* C29: in every state, a request on a stored item whose transaction_type
\* does not belong to its item_type (check_out or check_in on a material;
\* take, restock or stock_take on a tool) is answered 200, changes no field
\* of the item but updated_at, and appends its Transaction record.
C29_MismatchedTypeIsRecorded ==
    \A req \in TransactionCreate : Mismatched(req) => RecordedWithoutChange(req)

\* C29, the part that holds: it is so for every tool, and for every material
\* whose stored quantity is a number.
C29_RecordedOnValidItems ==
    \A req \in TransactionCreate :
        (Mismatched(req) /\ (req.item_type = "material" => IsValidMaterial(materials[req.item_id]))) =>
            RecordedWithoutChange(req)

\* C30: in every reachable state no two stored suppliers have names that are
\* equal ignoring letter case.
C30_NamesStayUnique ==
    \A a \in DOMAIN suppliers, b \in DOMAIN suppliers :
        a # b => ~SameName(suppliers[a].name, suppliers[b].name)

\* An update_supplier was answered 200 and left two stored suppliers whose
\* names, of letters only, are equal ignoring case.
C30_DuplicateByUpdate ==
    /\ response.op = "update_supplier"
    /\ response.status = 200
    /\ \E a \in DOMAIN suppliers, b \in DOMAIN suppliers :
        /\ a # b
        /\ IsPlain(suppliers[a].name)
        /\ IsPlain(suppliers[b].name)
        /\ SameName(suppliers[a].name, suppliers[b].name)

\* C30, the part that holds: update_supplier is the only route by which two
\* names of letters only come to be equal ignoring case.
C30_PlainDuplicatesOnlyByUpdate ==
    [][(\A a \in DOMAIN suppliers', b \in DOMAIN suppliers' :
            (a # b /\ IsPlain(suppliers'[a].name) /\ IsPlain(suppliers'[b].name)
                   /\ SameName(suppliers'[a].name, suppliers'[b].name))
                => \/ response'.op = "update_supplier"
                   \/ (/\ a \in DOMAIN suppliers /\ b \in DOMAIN suppliers
                       /\ suppliers[a].name = suppliers'[a].name
                       /\ suppliers[b].name = suppliers'[b].name))]_vars

====
